---- MODULE Spec2Model ----
(***************************************************************************)
(* evictfs: the eviction-bounded filesystem wrapper of gwangyi/fsx.        *)
(*                                                                         *)
(* The state is the facade's in-memory index (files, pq, currentSize),     *)
(* its capacity-1 signal channel and mutex, the backing filesystem it      *)
(* wraps, the foreground callers (one program position each) and the       *)
(* background evictLoop goroutine.                                         *)
(***************************************************************************)
EXTENDS Integers, Sequences, FiniteSets, TLC

VARIABLES
    config,       \* Config{MaxFiles, MaxSize, MaxAge}, fixed by New
    now,          \* the wall clock read by time.Since
    disk,         \* the backing filesystem: name -> [kind, size, atime]
    files,        \* e.files: name -> item pointer (0 = no entry)
    item,         \* the heap of item structs: pointer -> [name, size, atime, index]
    pq,           \* e.pq.items: sequence of item pointers (Go index i is pq[i+1])
    currentSize,  \* e.currentSize
    evictSignal,  \* number of signals buffered in e.evictSignal (capacity 1)
    mu,           \* holder of e.mu (NoOwner when unlocked)
    fg,           \* foreground callers: pid -> [pc, op, name, name2, arg, ret,
                  \*   rm, called, info, exp, was, again]
    epc,          \* position of the evictLoop goroutine
    ename,        \* evictLoop's local `name`
    panicked,     \* a goroutine panicked (index out of range): the process is dead
    layers        \* the union filesystem: its layers and the calls made on them

vars == <<layers, config, now, disk, files, item, pq, currentSize, evictSignal, mu,
          fg, epc, ename, panicked>>

----------------------------------------------------------------------------
(* Bounds of the model *)

\* the clock runs from 0 to MaxTime
MaxTime == 2
\* WriteFile writes 1..MaxData bytes, Truncate truncates to 0..MaxData
MaxData == 1

----------------------------------------------------------------------------
(* Names *)

\* the paths callers use, in the lexical order fs.WalkDir visits them; the
\* last two are files in the directories "dir" and "dir2"
NameOrder == <<"a", "b", "c", "d", "dir/f", "dir2/f">>
Names == {NameOrder[i] : i \in 1..Len(NameOrder)}

\* the bytes of each path, for strings.HasPrefix
Chars(n) ==
    CASE n = "a" -> <<"a">>
      [] n = "b" -> <<"b">>
      [] n = "c" -> <<"c">>
      [] n = "d" -> <<"d">>
      [] n = "dir/f" -> <<"d", "i", "r", "/", "f">>
      [] n = "dir2/f" -> <<"d", "i", "r", "2", "/", "f">>
      [] n = "dir" -> <<"d", "i", "r">>
      [] n = "dir2" -> <<"d", "i", "r", "2">>
      [] n = "." -> <<".">>
      [] OTHER -> <<>>

HasPrefix(s, prefix) ==
    /\ Len(s) >= Len(prefix)
    /\ SubSeq(s, 1, Len(prefix)) = prefix

NoName == ""
\* the specifications of evictfs run no union filesystem
NoLayers == <<>>
Pids == {1, 2}
NoOwner == 0
ItemIds == 1..(Cardinality(Names) + 1)
NoItem == 0

Sizes == 0..MaxData
Times == 0..MaxTime

NoInfo == [kind |-> "none", size |-> 0, atime |-> 0]
FileInfo(s, t) == [kind |-> "file", size |-> s, atime |-> t]
DirInfo == [kind |-> "dir", size |-> 0, atime |-> 0]
\* a symbolic link to a regular file outside the tracked paths: Stat follows
\* it, so its size and access time are the target's
LinkInfo(s, t) == [kind |-> "link", size |-> s, atime |-> t]
ZeroItem == [name |-> NoName, size |-> 0, atime |-> 0, index |-> 0]
\* a pointer that points to no item yet
NoItemThere == [ZeroItem EXCEPT !.index = -1]

----------------------------------------------------------------------------
(* lruMetadata and priorityQueue.  A heap value h is [items, it]: the      *)
(* slice pq.items and the item structs it points to.                       *)

\* lruMetadata.Less: m.AccessTime().Before(other.AccessTime())
LessMutLater(m, other) == m.atime > other.atime
lruLess(m, other) == m.atime < other.atime

At(s, i) == s[i + 1]

\* priorityQueue.Len
pqLen(h) == Len(h.items)

\* priorityQueue.Less
pqLess(h, i, j) == lruLess(h.it[At(h.items, i)], h.it[At(h.items, j)])

\* priorityQueue.Swap: swaps the pointers, then rewrites both back-pointers
SwapMutNoIndex(h, i, j) ==
    [h EXCEPT !.items = [k \in 1..Len(h.items) |->
                            IF k = i + 1 THEN At(h.items, j)
                            ELSE IF k = j + 1 THEN At(h.items, i)
                            ELSE h.items[k]]]
pqSwap(h, i, j) ==
    LET s == [k \in 1..Len(h.items) |->
                 IF k = i + 1 THEN At(h.items, j)
                 ELSE IF k = j + 1 THEN At(h.items, i)
                 ELSE h.items[k]]
        it1 == [h.it EXCEPT ![At(s, i)].index = i]
        it2 == [it1 EXCEPT ![At(s, j)].index = j]
    IN [items |-> s, it |-> it2]

\* priorityQueue.Push
pqPush(h, x) ==
    [items |-> Append(h.items, x),
     it |-> [h.it EXCEPT ![x].index = Len(h.items)]]

\* priorityQueue.Pop: returns the heap and the popped pointer
PopMutKeepIndex(h) ==
    LET n == Len(h.items)
        x == h.items[n]
    IN [h |-> [items |-> SubSeq(h.items, 1, n - 1), it |-> h.it], x |-> x]
pqPop(h) ==
    LET n == Len(h.items)
        x == h.items[n]
    IN [h |-> [items |-> SubSeq(h.items, 1, n - 1),
               it |-> [h.it EXCEPT ![x].index = -1]],
        x |-> x]

\* Go's integer division truncates toward zero: (0-1)/2 = 0
GoDiv(a, b) == IF a >= 0 THEN a \div b ELSE -((-a) \div b)

\* container/heap.up
RECURSIVE up(_, _)
up(h, j) ==
    LET i == GoDiv(j - 1, 2)
    IN IF i = j \/ ~pqLess(h, j, i) THEN h ELSE up(pqSwap(h, i, j), i)

\* the loop of container/heap.down; returns the heap and the final i
RECURSIVE downLoop(_, _, _)
downLoop(h, i, n) ==
    LET j1 == 2 * i + 1
        j2 == j1 + 1
        j == IF j2 < n /\ pqLess(h, j2, j1) THEN j2 ELSE j1
    IN IF j1 >= n \/ j1 < 0 THEN [h |-> h, i |-> i]
       ELSE IF ~pqLess(h, j, i) THEN [h |-> h, i |-> i]
       ELSE downLoop(pqSwap(h, i, j), j, n)

\* container/heap.down: reports whether the element moved
down(h, i0, n) ==
    LET r == downLoop(h, i0, n)
    IN [h |-> r.h, moved |-> r.i > i0]

\* container/heap.Push
heapPush(h, x) ==
    LET h1 == pqPush(h, x)
    IN up(h1, pqLen(h1) - 1)

\* container/heap.Pop (the caller checks pqLen(h) > 0; Go panics otherwise)
heapPop(h) ==
    LET n == pqLen(h) - 1
        h1 == pqSwap(h, 0, n)
    IN pqPop(down(h1, 0, n).h)

\* container/heap.Remove (the caller checks 0 <= i < pqLen(h))
heapRemove(h, i) ==
    LET n == pqLen(h) - 1
        h1 == pqSwap(h, i, n)
        d == down(h1, i, n)
    IN IF n # i
       THEN pqPop(IF d.moved THEN d.h ELSE up(d.h, i))
       ELSE pqPop(h)

\* container/heap.Fix
FixMutNone(h, i) == h
heapFix(h, i) ==
    LET d == down(h, i, pqLen(h))
    IN IF d.moved THEN d.h ELSE up(d.h, i)

----------------------------------------------------------------------------
(* The index: files, pq, currentSize as one value ix, so that the locked   *)
(* helpers can be composed inside one critical section.                    *)

Index == [files |-> files, item |-> item, pq |-> pq, currentSize |-> currentSize]
Heap(ix) == [items |-> ix.pq, it |-> ix.item]
InPq(ix, id) == \E k \in 1..Len(ix.pq) : ix.pq[k] = id
Referenced(ix, id) == InPq(ix, id) \/ \E n \in DOMAIN ix.files : ix.files[n] = id

\* &item{name: name, ...}: a pointer nothing refers to (the one at the place of
\* `name` in NameOrder when that is free, else the lowest free one)
Place(name) == CHOOSE k \in 1..Len(NameOrder) : NameOrder[k] = name
newItem(ix, name) ==
    IF ~Referenced(ix, Place(name)) THEN Place(name)
    ELSE CHOOSE id \in ItemIds :
            /\ ~Referenced(ix, id)
            /\ \A other \in ItemIds : ~Referenced(ix, other) => id <= other

\* an item nothing refers to any more is garbage: its name and metadata are
\* dropped, its index stays as the heap left it
Collect(ix) ==
    [ix EXCEPT !.item = [id \in ItemIds |->
        IF Referenced(ix, id) THEN ix.item[id]
        ELSE [ZeroItem EXCEPT !.index = ix.item[id].index]]]

\* newLRU / config.Metadata(info): the metadata holds the FileInfo
newLRU(info) == [size |-> info.size, atime |-> info.atime]

\* addFileLocked
AddMutNoSize(ix, name, md) ==
    LET id == newItem(ix, name)
        it1 == [ix.item EXCEPT ![id] =
                   [name |-> name, size |-> md.size, atime |-> md.atime, index |-> 0]]
        h == heapPush([items |-> ix.pq, it |-> it1], id)
    IN [files |-> [ix.files EXCEPT ![name] = id],
        item |-> h.it, pq |-> h.items,
        currentSize |-> ix.currentSize]
addFileLocked(ix, name, md) ==
    LET id == newItem(ix, name)
        it1 == [ix.item EXCEPT ![id] =
                   [name |-> name, size |-> md.size, atime |-> md.atime, index |-> 0]]
        h == heapPush([items |-> ix.pq, it |-> it1], id)
    IN [files |-> [ix.files EXCEPT ![name] = id],
        item |-> h.it, pq |-> h.items,
        currentSize |-> ix.currentSize + md.size]

\* heap.Remove(e.pq, it.index) indexes pq.items[it.index]: out of range panics
RemovePanics(ix, id) == ~(0 <= ix.item[id].index /\ ix.item[id].index < Len(ix.pq))

\* removeFileLocked (when ~RemovePanics)
RemoveMutKeepEntry(ix, id) ==
    LET r == heapRemove(Heap(ix), ix.item[id].index)
    IN [files |-> ix.files,
        item |-> r.h.it, pq |-> r.h.items,
        currentSize |-> ix.currentSize - ix.item[id].size]
removeFileLocked(ix, id) ==
    LET r == heapRemove(Heap(ix), ix.item[id].index)
    IN [files |-> [ix.files EXCEPT ![ix.item[id].name] = NoItem],
        item |-> r.h.it, pq |-> r.h.items,
        currentSize |-> ix.currentSize - ix.item[id].size]

\* lruMetadata.Update: m.FileInfo = info
UpdateMutStale(it, info) == it
Update(it, info) == [it EXCEPT !.size = info.size, !.atime = info.atime]

\* touch, update branch: e.currentSize -= it.metadata.Size()
subtractLocked(ix, id) == [ix EXCEPT !.currentSize = ix.currentSize - ix.item[id].size]

\* touch, update branch: it.metadata.Update(info); e.currentSize +=
\* it.metadata.Size(); heap.Fix(e.pq, it.index)
UpdateMutNoAdd(ix, id, info) ==
    LET it1 == [ix.item EXCEPT ![id] = Update(ix.item[id], info)]
        h == heapFix([items |-> ix.pq, it |-> it1], it1[id].index)
    IN [files |-> ix.files, item |-> h.it, pq |-> h.items,
        currentSize |-> ix.currentSize]
updateLocked(ix, id, info) ==
    LET it1 == [ix.item EXCEPT ![id] = Update(ix.item[id], info)]
        h == heapFix([items |-> ix.pq, it |-> it1], it1[id].index)
    IN [files |-> ix.files, item |-> h.it, pq |-> h.items,
        currentSize |-> ix.currentSize + it1[id].size]

\* evictLoop: it := heap.Pop(e.pq).(*item); delete(e.files, it.name);
\* e.currentSize -= it.metadata.Size(); returns the index and it.name
PopMutKeepSize(ix) ==
    LET r == heapPop(Heap(ix))
        it == r.h.it[r.x]
    IN [ix |-> [files |-> [ix.files EXCEPT ![it.name] = NoItem],
                item |-> r.h.it, pq |-> r.h.items,
                currentSize |-> ix.currentSize],
        name |-> it.name]
popLocked(ix) ==
    LET r == heapPop(Heap(ix))
        it == r.h.it[r.x]
    IN [ix |-> [files |-> [ix.files EXCEPT ![it.name] = NoItem],
                item |-> r.h.it, pq |-> r.h.items,
                currentSize |-> ix.currentSize - it.size],
        name |-> it.name]

----------------------------------------------------------------------------
(* The backing filesystem                                                  *)

Under(n, dir) == dir = "." \/ HasPrefix(Chars(n), Chars(dir) \o <<"/">>)

\* the directory dir, which the store holds by the files below it, is there
DirExists(d, dir) == \E n \in DOMAIN d : Under(n, dir) /\ d[n].kind # "none"

\* contextual.Stat(name) on the backing store
StatInfo(d, name) ==
    IF name \in DOMAIN d THEN d[name]
    ELSE IF DirExists(d, name) THEN DirInfo ELSE NoInfo

\* the path n below directory dir, after dir is renamed to dir2
Moved(n, dir, dir2) ==
    CHOOSE m \in Names :
        Chars(m) = Chars(dir2) \o SubSeq(Chars(n), Len(Chars(dir)) + 1, Len(Chars(n)))

\* the backing Rename of the directory name to name2, which must be empty or
\* not there
RenameDir(d, name, name2) ==
    IF ~DirExists(d, name) \/ (name2 # name /\ DirExists(d, name2))
    THEN [ok |-> FALSE, disk |-> d]
    ELSE IF name2 = name THEN [ok |-> TRUE, disk |-> d]
    ELSE [ok |-> TRUE,
          disk |-> [m \in DOMAIN d |->
                       IF Under(m, name) THEN NoInfo
                       ELSE IF Under(m, name2) THEN d[Moved(m, name2, name)]
                       ELSE d[m]]]

\* e.files[name], NoItem for a path that never was a key
Tracking(name) == IF name \in DOMAIN files THEN files[name] ELSE NoItem

\* BackingCall is the delegated call of a facade operation: whether it
\* succeeds, and the backing store after it
BackingCall(d, op, name, name2, arg, t) ==
    LET e == d[name]
        fail == [ok |-> FALSE, disk |-> d]
        same == [ok |-> TRUE, disk |-> d]
        put(n, x) == [ok |-> TRUE, disk |-> [d EXCEPT ![n] = x]]
        written(s) == [kind |-> IF e.kind = "link" THEN "link" ELSE "file",
                       size |-> s, atime |-> t]
    IN CASE op \in {"Open", "Stat", "Lstat", "Lchown", "Chown", "Chmod"} ->
              IF e.kind = "none" THEN fail ELSE same
         [] op = "OpenFile" ->
              IF arg = 0 THEN (IF e.kind = "none" THEN fail ELSE same)
              ELSE IF e.kind = "none" THEN put(name, written(0))
              ELSE IF e.kind = "dir" THEN fail ELSE same
         [] op = "Create" ->
              IF e.kind = "dir" THEN fail ELSE put(name, written(0))
         [] op = "WriteFile" ->
              IF e.kind = "dir" THEN fail ELSE put(name, written(arg))
         [] op = "ReadFile" ->
              IF e.kind \in {"none", "dir"} THEN fail
              ELSE put(name, [e EXCEPT !.atime = t])
         [] op = "Truncate" ->
              IF e.kind \in {"none", "dir"} THEN fail
              ELSE put(name, [e EXCEPT !.size = arg])
         [] op = "Chtimes" ->
              IF e.kind = "none" THEN fail ELSE put(name, [e EXCEPT !.atime = arg])
         [] op = "Remove" ->
              IF e.kind = "none" THEN fail ELSE put(name, NoInfo)
         [] op = "RemoveAll" ->
              [ok |-> TRUE,
               disk |-> [n \in DOMAIN d |->
                            IF n = name \/ Under(n, name) THEN NoInfo ELSE d[n]]]
         [] op = "Rename" ->
              IF name \notin DOMAIN d THEN RenameDir(d, name, name2)
              ELSE IF e.kind = "none" THEN fail
              ELSE IF name2 = name THEN same
              ELSE [ok |-> TRUE,
                    disk |-> [d EXCEPT ![name2] = e, ![name] = NoInfo]]
         [] op = "ReadLink" ->
              IF e.kind = "link" THEN same ELSE fail
         \* Symlink(oldname, name): oldname is a regular file of `arg` bytes
         \* outside the tracked paths
         [] op = "Symlink" ->
              IF e.kind # "none" THEN fail ELSE put(name, LinkInfo(arg, t))
         [] OTHER -> fail

----------------------------------------------------------------------------
(* Foreground callers                                                      *)

GatedOps == {"Open", "OpenFile", "ReadFile", "Stat", "Lstat", "Rename", "Lchown",
             "Truncate", "Chown", "Chmod", "Chtimes"}
TouchOps == {"Open", "OpenFile", "Create", "ReadFile", "Stat", "Lstat", "Lchown", "Symlink",
             "Truncate", "WriteFile", "Chown", "Chmod", "Chtimes"}
AllOps == GatedOps \cup TouchOps \cup {"Remove", "RemoveAll", "ReadLink"}
\* the methods of evictFile, the handle OpenFile returns
HandleOps == {"Write", "FileTruncate"}

Idle == [pc |-> "idle", op |-> "-", name |-> NoName, name2 |-> NoName, arg |-> 0,
         ret |-> "-", rm |-> 0, called |-> FALSE, info |-> NoInfo, exp |-> FALSE,
         was |-> FALSE, again |-> FALSE, full |-> FALSE]

\* the first position of a facade method
EntryMutAllGated(op, arg) ==
    CASE op = "Open" -> "chkOpen"
      [] op \in {"Remove", "RemoveAll", "ReadLink"} -> "call"
      [] OTHER -> "chk"
Entry(op, arg) ==
    CASE op = "Open" -> "chkOpen"                           \* Open: line 221
      [] op = "OpenFile" /\ arg = 0 -> "chk"                \* OpenFile: line 236
      [] op \in GatedOps \ {"Open", "OpenFile"} -> "chk"
      [] op \in HandleOps -> "hcall"
      [] OTHER -> "call"

\* time.Since(it.metadata.AccessTime()) > e.config.MaxAge
ExpiredMutGeq(id) == now - item[id].atime >= config.MaxAge
ExpiredMutLate(id) == now - item[id].atime > config.MaxAge + 1
Expired(id) == now - item[id].atime > config.MaxAge

\* New has returned the facade and started evictLoop
Constructed == epc # "off"

\* path n is tracked and its idle time exceeds a positive MaxAge
Stale(n) ==
    /\ config.MaxAge > 0
    /\ n \in DOMAIN files
    /\ files[n] # NoItem
    /\ now - item[files[n]].atime > config.MaxAge

\* a caller enters a facade method; exp records whether the path was stale
\* when the call was made, was whether it was tracked, again whether the call
\* follows the caller's successful Remove of the same path, tracked at the time
\* (full, set by touch, records whether a signal was pending when touch sent)
Start(p, op, n, n2, a) ==
    /\ ~panicked
    /\ Constructed
    /\ fg[p].pc \in {"idle", "done"}
    /\ fg' = [fg EXCEPT ![p] = [Idle EXCEPT !.pc = Entry(op, a), !.op = op,
                                            !.name = n, !.name2 = n2, !.arg = a,
                                            !.exp = Stale(n),
                                            !.was = n \in DOMAIN files /\ files[n] # NoItem,
                                            !.again = /\ fg[p].op = "Remove"
                                                      /\ fg[p].name = n
                                                      /\ fg[p].ret = "nil"
                                                      /\ fg[p].was]]
    /\ UNCHANGED <<layers, config, now, disk, files, item, pq, currentSize, evictSignal,
                   mu, epc, ename, panicked>>

SetIndex(ix) ==
    /\ files' = ix.files
    /\ item' = ix.item
    /\ pq' = ix.pq
    /\ currentSize' = ix.currentSize

\* checkExpired, up to its backing Remove
checkExpired(p) ==
    LET f == fg[p]
        next == IF f.pc = "chkOpen" THEN "chk" ELSE "call"
        id == Tracking(f.name)
    IN /\ ~panicked
       /\ f.pc \in {"chkOpen", "chk"}
       /\ IF config.MaxAge <= 0
          THEN /\ fg' = [fg EXCEPT ![p].pc = next]
               /\ UNCHANGED <<files, item, pq, currentSize, panicked>>
          ELSE /\ mu = NoOwner
               /\ IF id = NoItem \/ ~Expired(id)
                  THEN /\ fg' = [fg EXCEPT ![p].pc = next]
                       /\ UNCHANGED <<files, item, pq, currentSize, panicked>>
                  ELSE IF RemovePanics(Index, id)
                  THEN /\ panicked' = TRUE
                       /\ UNCHANGED <<fg, files, item, pq, currentSize>>
                  ELSE /\ SetIndex(Collect(removeFileLocked(Index, id)))
                       /\ fg' = [fg EXCEPT ![p].pc = "expire"]
                       /\ UNCHANGED panicked
       /\ UNCHANGED <<layers, config, now, disk, evictSignal, mu, epc, ename>>

\* checkExpired: _ = contextual.Remove(ctx, e.fsys, name); return fs.ErrNotExist
expireRemove(p) ==
    LET f == fg[p]
    IN /\ ~panicked
       /\ f.pc = "expire"
       /\ disk' = BackingCall(disk, "Remove", f.name, NoName, 0, now).disk
       /\ fg' = [fg EXCEPT ![p].pc = "done", ![p].ret = "ErrNotExist",
                           ![p].rm = f.rm + 1]
       /\ UNCHANGED <<layers, config, now, files, item, pq, currentSize, evictSignal,
                      mu, epc, ename, panicked>>

\* the delegated backing call of the method, with touch wrongly made on its
\* error too
CallMutTouchOnError(p) ==
    LET f == fg[p]
        r == BackingCall(disk, f.op, f.name, f.name2, f.arg, now)
    IN /\ ~panicked
       /\ f.pc = "call"
       /\ disk' = r.disk
       /\ fg' = [fg EXCEPT ![p].called = TRUE,
                           ![p].pc = IF f.op \in TouchOps THEN "tlock"
                                     ELSE IF ~r.ok \/ f.op = "ReadLink" THEN "done"
                                     ELSE "untrack",
                           ![p].ret = IF f.op \in TouchOps THEN "-"
                                      ELSE IF ~r.ok THEN "BackingErr"
                                      ELSE IF f.op = "ReadLink" THEN "nil"
                                      ELSE "-"]
       /\ UNCHANGED <<layers, config, now, files, item, pq, currentSize, evictSignal,
                      mu, epc, ename, panicked>>

\* the delegated backing call of the method
call(p) ==
    LET f == fg[p]
        r == BackingCall(disk, f.op, f.name, f.name2, f.arg, now)
    IN /\ ~panicked
       /\ f.pc = "call"
       /\ disk' = r.disk
       /\ fg' = [fg EXCEPT ![p].called = TRUE,
                           ![p].pc = IF ~r.ok THEN "done"
                                     ELSE IF f.op \in TouchOps THEN "tlock"
                                     ELSE IF f.op = "ReadLink" THEN "done"
                                     ELSE "untrack",
                           ![p].ret = IF ~r.ok THEN "BackingErr"
                                      ELSE IF f.op = "ReadLink" THEN "nil"
                                      ELSE "-"]
       /\ UNCHANGED <<layers, config, now, files, item, pq, currentSize, evictSignal,
                      mu, epc, ename, panicked>>

\* the delegated backing call returns an error for a reason of its own
\* (permission, input/output), and the method returns it
callErr(p) ==
    /\ ~panicked
    /\ fg[p].pc = "call"
    /\ fg' = [fg EXCEPT ![p].called = TRUE, ![p].pc = "done", ![p].ret = "BackingErr"]
    /\ UNCHANGED <<layers, config, now, disk, files, item, pq, currentSize, evictSignal,
                   mu, epc, ename, panicked>>

\* evictFile.Write and evictFile.Truncate with no touch after them
HandleCallMutNoTouch(p, ok) ==
    /\ ~panicked
    /\ fg[p].pc = "hcall"
    /\ disk' = disk
    /\ fg' = [fg EXCEPT ![p].called = TRUE, ![p].pc = "done",
                        ![p].ret = IF ok THEN "nil" ELSE "BackingErr"]
    /\ UNCHANGED <<layers, config, now, files, item, pq, currentSize, evictSignal,
                   mu, epc, ename, panicked>>

\* evictFile.Write and evictFile.Truncate up to touch: f.File.Write(p), which
\* returns n = arg, or f.File.Truncate(arg), which succeeds (ok) or fails.
\* The handle's file is the one at its path when there is one; else the
\* file has been deleted and the call changes nothing a path names.  The
\* error Write returns beside n is left out: touch does not depend on it.
handleCall(p, ok) ==
    LET f == fg[p]
        e == disk[f.name]
        touches == IF f.op = "Write" THEN f.arg > 0 ELSE ok
        after == IF f.op = "Write"
                 THEN [e EXCEPT !.size = IF f.arg > e.size THEN f.arg ELSE e.size,
                                !.atime = now]
                 ELSE [e EXCEPT !.size = f.arg]
    IN /\ ~panicked
       /\ f.pc = "hcall"
       /\ f.op = "Write" => ok
       /\ disk' = IF touches /\ e.kind \in {"file", "link"}
                  THEN [disk EXCEPT ![f.name] = after]
                  ELSE disk
       /\ fg' = [fg EXCEPT ![p].called = TRUE,
                           ![p].pc = IF touches THEN "tlock" ELSE "done",
                           ![p].ret = IF touches THEN "-"
                                      ELSE IF ok THEN "nil" ELSE "BackingErr"]
       /\ UNCHANGED <<layers, config, now, files, item, pq, currentSize, evictSignal,
                      mu, epc, ename, panicked>>

\* caller p holds a handle for path n: its last call opened n, or used the
\* handle
HasHandle(p, n) ==
    /\ fg[p].pc = "done"
    /\ fg[p].name = n
    /\ \/ fg[p].op \in {"Open", "OpenFile", "Create"} /\ fg[p].ret = "nil"
       \/ fg[p].op \in HandleOps

\* the paths RemoveAll's loop over e.files matches
MatchingMutNoSlash(ix, name) ==
    {n \in DOMAIN ix.files :
        ix.files[n] # NoItem /\ (n = name \/ HasPrefix(Chars(n), Chars(name)))}
Matching(ix, name) ==
    {n \in DOMAIN ix.files :
        ix.files[n] # NoItem /\ (n = name \/ HasPrefix(Chars(n), Chars(name) \o <<"/">>))}

\* RemoveAll's loop, visiting the matching entries in the order `order`
RECURSIVE removeAllLoop(_, _)
removeAllLoop(ix, order) ==
    IF order = <<>> THEN ix
    ELSE removeAllLoop(removeFileLocked(ix, ix.files[Head(order)]), Tail(order))

Orders(S) == {o \in [1..Cardinality(S) -> S] : \A i, j \in DOMAIN o : i # j => o[i] # o[j]}

\* Remove, RemoveAll, Rename: the locked section after a successful backing call
untrack(p) ==
    LET f == fg[p]
        id == Tracking(f.name)
    IN /\ ~panicked
       /\ f.pc = "untrack"
       /\ mu = NoOwner
       /\ IF f.op = "RemoveAll"
          THEN /\ \E o \in Orders(Matching(Index, f.name)) :
                     SetIndex(Collect(removeAllLoop(Index, o)))
               /\ fg' = [fg EXCEPT ![p].pc = "done", ![p].ret = "nil"]
               /\ UNCHANGED panicked
          ELSE IF id # NoItem /\ RemovePanics(Index, id)
          THEN /\ panicked' = TRUE
               /\ UNCHANGED <<fg, files, item, pq, currentSize>>
          ELSE /\ IF id # NoItem
                  THEN SetIndex(Collect(removeFileLocked(Index, id)))
                  ELSE UNCHANGED <<files, item, pq, currentSize>>
               /\ fg' = [fg EXCEPT ![p].pc = IF f.op = "Rename" THEN "tlock" ELSE "done",
                                   ![p].ret = IF f.op = "Rename" THEN "-" ELSE "nil"]
               /\ UNCHANGED panicked
       /\ UNCHANGED <<layers, config, now, disk, evictSignal, mu, epc, ename>>

\* the path touch is called with
TouchName(f) == IF f.op = "Rename" THEN f.name2 ELSE f.name

\* touch: e.mu.Lock(), made to wait until the index is within MaxFiles
TouchLockMutAdmits(p) ==
    /\ ~panicked
    /\ fg[p].pc = "tlock"
    /\ mu = NoOwner
    /\ ~(/\ config.MaxFiles > 0
         /\ Cardinality({n \in DOMAIN files : files[n] # NoItem}) >= config.MaxFiles)
    /\ mu' = p
    /\ fg' = [fg EXCEPT ![p].pc = "tstat"]
    /\ UNCHANGED <<layers, config, now, disk, files, item, pq, currentSize, evictSignal,
                   epc, ename, panicked>>

\* touch: e.mu.Lock(), wrongly granted while another goroutine holds e.mu
TouchLockMutShared(p) ==
    /\ ~panicked
    /\ fg[p].pc = "tlock"
    /\ mu' = p
    /\ fg' = [fg EXCEPT ![p].pc = "tstat"]
    /\ UNCHANGED <<layers, config, now, disk, files, item, pq, currentSize, evictSignal,
                   epc, ename, panicked>>

\* touch: e.mu.Lock()
touchLock(p) ==
    /\ ~panicked
    /\ fg[p].pc = "tlock"
    /\ mu = NoOwner
    /\ mu' = p
    /\ fg' = [fg EXCEPT ![p].pc = "tstat"]
    /\ UNCHANGED <<layers, config, now, disk, files, item, pq, currentSize, evictSignal,
                   epc, ename, panicked>>

\* select { case e.evictSignal <- struct{}{}: default: }
SignalMutNone(n) == n
SignalMutQueue(n) == n + 1
Signal(n) == IF n < 1 THEN n + 1 ELSE n

\* touch, from contextual.Stat to `e.currentSize -= it.metadata.Size()` of the
\* update branch, or to its return on the other branches
touchStat(p) ==
    LET f == fg[p]
        n == TouchName(f)
        info == StatInfo(disk, n)
        id == Tracking(n)
        finish == fg' = [fg EXCEPT ![p].pc = "done", ![p].ret = "nil"]
    IN /\ ~panicked
       /\ f.pc = "tstat"
       /\ mu = p
       /\ IF info.kind = "none"
          THEN IF id # NoItem /\ RemovePanics(Index, id)
               THEN /\ panicked' = TRUE
                    /\ UNCHANGED <<fg, mu, files, item, pq, currentSize, evictSignal>>
               ELSE /\ IF id # NoItem
                       THEN SetIndex(Collect(removeFileLocked(Index, id)))
                       ELSE UNCHANGED <<files, item, pq, currentSize>>
                    /\ finish
                    /\ mu' = NoOwner
                    /\ UNCHANGED <<evictSignal, panicked>>
          ELSE IF info.kind = "dir"
          THEN /\ finish
               /\ mu' = NoOwner
               /\ UNCHANGED <<files, item, pq, currentSize, evictSignal, panicked>>
          ELSE IF id # NoItem
          THEN /\ SetIndex(subtractLocked(Index, id))
               /\ fg' = [fg EXCEPT ![p].pc = "tupd", ![p].info = info]
               /\ UNCHANGED <<mu, evictSignal, panicked>>
          ELSE /\ SetIndex(addFileLocked(Index, n, newLRU(info)))
               /\ evictSignal' = Signal(evictSignal)
               /\ fg' = [fg EXCEPT ![p].pc = "done", ![p].ret = "nil",
                                   ![p].full = evictSignal >= 1]
               /\ mu' = NoOwner
               /\ UNCHANGED panicked
       /\ UNCHANGED <<layers, config, now, disk, epc, ename>>

\* touch, the rest of the update branch: Update, currentSize +=, heap.Fix,
\* the signal and the deferred Unlock
touchUpdate(p) ==
    LET f == fg[p]
    IN /\ ~panicked
       /\ f.pc = "tupd"
       /\ mu = p
       /\ SetIndex(updateLocked(Index, files[TouchName(f)], f.info))
       /\ evictSignal' = Signal(evictSignal)
       /\ mu' = NoOwner
       /\ fg' = [fg EXCEPT ![p].pc = "done", ![p].ret = "nil",
                           ![p].full = evictSignal >= 1]
       /\ UNCHANGED <<layers, config, now, disk, epc, ename, panicked>>

----------------------------------------------------------------------------
(* evictLoop                                                               *)

\* for range e.evictSignal: receive one signal
evictRecv ==
    /\ ~panicked
    /\ epc = "recv"
    /\ evictSignal > 0
    /\ evictSignal' = evictSignal - 1
    /\ epc' = "check"
    /\ UNCHANGED <<layers, config, now, disk, files, item, pq, currentSize, mu, fg,
                   ename, panicked>>

\* the bound condition of evictLoop
OverMutAlways(ix) == TRUE
OverLimit(ix) ==
    \/ config.MaxFiles > 0 /\ Cardinality({n \in DOMAIN ix.files : ix.files[n] # NoItem}) > config.MaxFiles
    \/ config.MaxSize > 0 /\ ix.currentSize > config.MaxSize

\* the goroutine of evictLoop as an owner of e.mu
Evictor == 3
\* e.mu.Unlock() at the end of the locked section: who owns e.mu after it
UnlockMutHeld == Evictor
evictUnlock == NoOwner

\* the locked section of the inner loop, and `if name == "" { break }`
evictCheck ==
    /\ ~panicked
    /\ epc = "check"
    /\ mu = NoOwner
    /\ IF OverLimit(Index)
       THEN IF Len(pq) = 0
            THEN /\ panicked' = TRUE
                 /\ UNCHANGED <<files, item, pq, currentSize, epc, ename>>
            ELSE \E r \in {popLocked(Index)} :
                 \E ix \in {Collect(r.ix)} :
                    /\ SetIndex(ix)
                    /\ ename' = r.name
                    /\ epc' = "remove"
                    /\ UNCHANGED panicked
       ELSE /\ epc' = "recv"
            /\ UNCHANGED <<files, item, pq, currentSize, ename, panicked>>
    /\ mu' = evictUnlock
    /\ UNCHANGED <<layers, config, now, disk, evictSignal, fg>>

\* _ = contextual.Remove(ctx, e.fsys, name), with the victim put back into
\* the index when Remove fails
EvictRemoveMutRequeue ==
    LET r == BackingCall(disk, "Remove", ename, NoName, 0, now)
    IN /\ ~panicked
       /\ epc = "remove"
       /\ disk' = r.disk
       /\ IF r.ok \/ files[ename] # NoItem
          THEN UNCHANGED <<files, item, pq, currentSize>>
          ELSE SetIndex(addFileLocked(Index, ename, newLRU(FileInfo(0, 0))))
       /\ ename' = NoName
       /\ epc' = "check"
       /\ UNCHANGED <<layers, config, now, evictSignal, mu, fg, panicked>>

\* _ = contextual.Remove(ctx, e.fsys, name), outside the lock
evictRemove ==
    /\ ~panicked
    /\ epc = "remove"
    /\ disk' = BackingCall(disk, "Remove", ename, NoName, 0, now).disk
    /\ ename' = NoName
    /\ epc' = "check"
    /\ UNCHANGED <<layers, config, now, files, item, pq, currentSize, evictSignal, mu,
                   fg, panicked>>

\* the same, when Remove returns an error for a reason of its own and the
\* file stays
evictRemoveErr ==
    /\ ~panicked
    /\ epc = "remove"
    /\ ename' = NoName
    /\ epc' = "check"
    /\ UNCHANGED <<layers, config, now, disk, files, item, pq, currentSize, evictSignal,
                   mu, fg, panicked>>

----------------------------------------------------------------------------
(* The environment                                                         *)

\* another user of the backing store reads a file: its access time moves
BackingAccess(n) ==
    /\ ~panicked
    /\ disk[n].kind = "file"
    /\ disk[n].atime < now
    /\ disk' = [disk EXCEPT ![n].atime = now]
    /\ UNCHANGED <<layers, config, now, files, item, pq, currentSize, evictSignal, mu,
                   fg, epc, ename, panicked>>

\* another user of the backing store deletes a file
BackingDelete(n) ==
    /\ ~panicked
    /\ disk[n].kind = "file"
    /\ disk' = [disk EXCEPT ![n] = NoInfo]
    /\ UNCHANGED <<layers, config, now, files, item, pq, currentSize, evictSignal, mu,
                   fg, epc, ename, panicked>>

\* a directory is made where nothing is, by another user of the backing store
\* or through the facade's Mkdir, which only delegates
BackingMkdir(n) ==
    /\ ~panicked
    /\ disk[n].kind = "none"
    /\ disk' = [disk EXCEPT ![n] = DirInfo]
    /\ UNCHANGED <<layers, config, now, files, item, pq, currentSize, evictSignal, mu,
                   fg, epc, ename, panicked>>

\* time passes
Tick ==
    /\ ~panicked
    /\ now < MaxTime
    /\ now' = now + 1
    /\ UNCHANGED <<layers, config, disk, files, item, pq, currentSize, evictSignal, mu,
                   fg, epc, ename, panicked>>

----------------------------------------------------------------------------
(* New: the index after init's walk over the backing store                 *)

EmptyIndex == [files |-> [n \in Names |-> NoItem],
               item |-> [id \in ItemIds |-> NoItemThere],
               pq |-> <<>>, currentSize |-> 0]

\* init: fs.WalkDir visits the entries in lexical order and adds every
\* entry that is not a directory
RECURSIVE initWalk(_, _, _)
initWalk(ix, d, k) ==
    IF k > Len(NameOrder) THEN ix
    ELSE LET n == NameOrder[k]
         IN initWalk(IF d[n].kind \in {"file", "link"}
                     THEN addFileLocked(ix, n, newLRU(d[n])) ELSE ix,
                     d, k + 1)

New(cfg, d) ==
    /\ layers = NoLayers
    /\ config = cfg
    /\ now \in Times
    /\ disk = d
    /\ LET ix == initWalk(EmptyIndex, d, 1)
       IN /\ files = ix.files
          /\ item = ix.item
          /\ pq = ix.pq
          /\ currentSize = ix.currentSize
    /\ evictSignal = 0
    /\ mu = NoOwner
    /\ fg = [p \in Pids |-> Idle]
    /\ epc = "recv"
    /\ ename = NoName
    /\ panicked = FALSE

----------------------------------------------------------------------------
(* New, step by step: fs.WalkDir calls init's callback for the root and    *)
(* for every entry; the caller of New is at pc "walk" with arg the place   *)
(* in NameOrder of the next entry (0 for the root).                        *)


\* init's callback for the entry at place k; ok is whether the backing store
\* answered (Stat and ReadDir for a directory, Info() for another entry).
\* Returns the index and whether the callback returned an error
initEntryMutSwallow(ix, d, k, ok) ==
    IF k = 0 \/ d[NameOrder[k]].kind = "dir" THEN [ix |-> ix, err |-> FALSE]
    ELSE IF ~ok THEN [ix |-> ix, err |-> FALSE]
    ELSE [ix |-> addFileLocked(ix, NameOrder[k], newLRU(d[NameOrder[k]])),
          err |-> FALSE]
initEntryMutDirs(ix, d, k, ok) ==
    IF k = 0 THEN [ix |-> ix, err |-> ~ok]
    ELSE IF ~ok THEN [ix |-> ix, err |-> TRUE]
    ELSE [ix |-> addFileLocked(ix, NameOrder[k], newLRU(d[NameOrder[k]])),
          err |-> FALSE]
initEntry(ix, d, k, ok) ==
    IF k = 0 \/ d[NameOrder[k]].kind = "dir" THEN [ix |-> ix, err |-> ~ok]
    ELSE IF ~ok THEN [ix |-> ix, err |-> TRUE]
    ELSE [ix |-> addFileLocked(ix, NameOrder[k], newLRU(d[NameOrder[k]])),
          err |-> FALSE]

\* New has been called on store d with Config cfg
Constructing(cfg, d) ==
    /\ layers = NoLayers
    /\ config = cfg
    /\ disk = d
    /\ files = EmptyIndex.files
    /\ item = EmptyIndex.item
    /\ pq = EmptyIndex.pq
    /\ currentSize = 0
    /\ evictSignal = 0
    /\ mu = NoOwner
    /\ fg = [p \in Pids |-> IF p = 1 THEN [Idle EXCEPT !.op = "New", !.pc = "walk"]
                             ELSE Idle]
    /\ epc = "off"
    /\ ename = NoName
    /\ panicked = FALSE

\* one visit of the walk: entries that are not there are passed over; an error
\* ends the walk and New returns (nil, err)
newWalk(p) ==
    LET f == fg[p]
        k == f.arg
    IN /\ f.op = "New" /\ f.pc = "walk"
       /\ k <= Len(NameOrder)
       /\ IF k > 0 /\ disk[NameOrder[k]].kind = "none"
          THEN /\ fg' = [fg EXCEPT ![p].arg = k + 1]
               /\ UNCHANGED <<files, item, pq, currentSize>>
          ELSE \E ok \in BOOLEAN :
               \E r \in {initEntry(Index, disk, k, ok)} :
                  IF r.err
                  THEN /\ fg' = [fg EXCEPT ![p].pc = "done", ![p].ret = "ScanErr"]
                       /\ UNCHANGED <<files, item, pq, currentSize>>
                  ELSE /\ fg' = [fg EXCEPT ![p].arg = k + 1]
                       /\ SetIndex(r.ix)
       /\ UNCHANGED <<layers, config, now, disk, evictSignal, mu, epc, ename, panicked>>

\* the walk is over: go e.evictLoop(); return e, nil
newReturn(p) ==
    LET f == fg[p]
    IN /\ f.op = "New" /\ f.pc = "walk"
       /\ f.arg > Len(NameOrder)
       /\ epc' = "recv"
       /\ fg' = [fg EXCEPT ![p].pc = "done", ![p].ret = "nil"]
       /\ UNCHANGED <<layers, config, now, disk, files, item, pq, currentSize, evictSignal,
                      mu, ename, panicked>>

----------------------------------------------------------------------------
(* Specifications.  Each runs New on a set of backing stores under one     *)
(* Config and lets callers issue a set of operations.                      *)

\* the backing stores New is called on: each of the files `ns`, if there,
\* has `size` bytes and was last accessed at time 0
Stores(ns, size) ==
    {d \in [Names -> {NoInfo, FileInfo(size, 0)}] : \A n \in Names \ ns : d[n] = NoInfo}

EmptyStore == [n \in Names |-> NoInfo]

\* the steps of a caller inside a facade method
Step(p) ==
    \/ checkExpired(p)
    \/ call(p)
    \/ untrack(p)
    \/ touchLock(p)
    \/ touchStat(p)
    \/ touchUpdate(p)

\* the paths of the specifications that use two
Two == {"a", "b"}

\* all three bounds at once
AllBounds == [MaxFiles |-> 1, MaxSize |-> 1, MaxAge |-> 1]

Init == /\ \E d \in Stores({"a", "b"}, 1) : New(AllBounds, d)
        /\ now = 0

Next ==
    \/ \E n \in Two : Start(1, "Create", n, NoName, 0)
    \/ \E n \in Two, a \in 1..MaxData : Start(1, "WriteFile", n, NoName, a)
    \/ \E n \in Two : Start(1, "Stat", n, NoName, 0)
    \/ \E n \in Two : Start(1, "Remove", n, NoName, 0)
    \/ \E n \in Two \cup {"."} : Start(1, "RemoveAll", n, NoName, 0)
    \/ \E n \in Two, n2 \in Two : Start(1, "Rename", n, n2, 0)
    \/ Step(1)
    \/ expireRemove(1)
    \/ evictRecv
    \/ evictCheck
    \/ evictRemove
    \/ Tick

Spec == Init /\ [][Next]_vars

----------------------------------------------------------------------------
(* SpecPQ: the locked sections alone, run one after another on an index of *)
(* up to six items, as whoever holds e.mu runs them.                       *)

\* the access times of SpecPQ run from 0 to MaxPrio
MaxPrio == 1

NoBounds == [MaxFiles |-> 0, MaxSize |-> 0, MaxAge |-> 0]

Tracked == {n \in Names : files[n] # NoItem}

\* touch's insert branch for path n with access time t
pqAdd(n, t) ==
    /\ files[n] = NoItem
    /\ SetIndex(addFileLocked(Index, n, newLRU(FileInfo(1, t))))
    /\ UNCHANGED <<layers, config, now, disk, evictSignal, mu, fg, epc, ename, panicked>>

\* touch's update branch for path n with access time t
pqTouch(n, t) ==
    /\ files[n] # NoItem
    /\ SetIndex(updateLocked(subtractLocked(Index, files[n]), files[n], FileInfo(1, t)))
    /\ UNCHANGED <<layers, config, now, disk, evictSignal, mu, fg, epc, ename, panicked>>

\* removeFileLocked for path n
pqRemove(n) ==
    /\ files[n] # NoItem
    /\ ~RemovePanics(Index, files[n])
    /\ SetIndex(Collect(removeFileLocked(Index, files[n])))
    /\ UNCHANGED <<layers, config, now, disk, evictSignal, mu, fg, epc, ename, panicked>>

\* evictLoop's pop
pqPopMin ==
    /\ Len(pq) > 0
    /\ SetIndex(Collect(popLocked(Index).ix))
    /\ UNCHANGED <<layers, config, now, disk, evictSignal, mu, fg, epc, ename, panicked>>

InitPQ ==
    /\ \E d \in {EmptyStore, [n \in Names |-> FileInfo(1, 0)]} : New(NoBounds, d)
    /\ now = 0

NextPQ ==
    \/ \E n \in Names, t \in 0..MaxPrio : pqAdd(n, t)
    \/ \E n \in Names, t \in 0..MaxPrio : pqTouch(n, t)
    \/ \E n \in Names : pqRemove(n)
    \/ pqPopMin

SpecPQ == InitPQ /\ [][NextPQ]_vars

----------------------------------------------------------------------------
(* SpecFiles: MaxFiles = 2 over three paths, one caller that creates,      *)
(* stats and removes, other users of the backing store that read its       *)
(* files, and the evictLoop goroutine scheduled fairly.                    *)

Three == {"a", "b", "c"}

\* Config{MaxFiles: 2}
FilesConfig == [MaxFiles |-> 2, MaxSize |-> 0, MaxAge |-> 0]

\* New on any store of empty files among a, b, c: also the one holding all three
InitFiles ==
    /\ \E d \in Stores(Three, 0) : New(FilesConfig, d)
    /\ now = 0

NextFiles ==
    \/ \E n \in Three : Start(1, "Create", n, NoName, 0)
    \/ \E n \in Three : Start(1, "Stat", n, NoName, 0)
    \/ \E n \in Three : Start(1, "Remove", n, NoName, 0)
    \/ Step(1)
    \/ evictRecv
    \/ evictCheck
    \/ evictRemove
    \/ \E n \in Three : BackingAccess(n)
    \/ Tick

\* the Go scheduler runs the evictLoop goroutine whenever it can take a step
EvictorFair ==
    /\ WF_vars(evictRecv)
    /\ WF_vars(evictCheck)
    /\ WF_vars(evictRemove)

SpecFiles == InitFiles /\ [][NextFiles]_vars /\ EvictorFair

----------------------------------------------------------------------------
(* SpecSize: MaxSize = 20 over two paths, one caller that writes 15 or 10  *)
(* bytes, creates, stats and removes, and the evictLoop goroutine           *)
(* scheduled fairly.                                                       *)

\* Config{MaxSize: 20}
SizeConfig == [MaxFiles |-> 0, MaxSize |-> 20, MaxAge |-> 0]

\* the sizes of file1 and file2
WriteSizes == {15, 10}

\* New on any store of 15-byte files among a, b: also the one holding both
InitSize ==
    /\ \E d \in Stores(Two, 15) : New(SizeConfig, d)
    /\ now = 0

NextSize ==
    \/ \E n \in Two, a \in WriteSizes : Start(1, "WriteFile", n, NoName, a)
    \/ \E n \in Two : Start(1, "Create", n, NoName, 0)
    \/ \E n \in Two : Start(1, "Stat", n, NoName, 0)
    \/ \E n \in Two : Start(1, "Remove", n, NoName, 0)
    \/ Step(1)
    \/ evictRecv
    \/ evictCheck
    \/ evictRemove
    \/ Tick

SpecSize == InitSize /\ [][NextSize]_vars /\ EvictorFair

----------------------------------------------------------------------------
(* SpecAge: MaxAge = 1 and no other bound, over paths a and b that are     *)
(* regular files or symbolic links, and one caller that issues every       *)
(* operation of the facade that takes a path.                              *)

\* Config{MaxAge: threshold}
AgeConfig == [MaxFiles |-> 0, MaxSize |-> 0, MaxAge |-> 1]

\* the operations called with a path alone
PathOps == {"Open", "ReadFile", "Stat", "Lstat", "Lchown", "Chown", "Chmod",
            "Create", "ReadLink", "Remove"}

\* the stores of SpecAge: a is a 1-byte file or link last accessed at time 0, or
\* is not there
AgeStores ==
    {d \in [Names -> {NoInfo, FileInfo(1, 0), LinkInfo(1, 0)}] :
        \A n \in Names \ {"a"} : d[n] = NoInfo}

InitAge ==
    /\ \E d \in AgeStores : New(AgeConfig, d)
    /\ now = 0

NextAge ==
    \/ \E op \in PathOps, n \in Two : Start(1, op, n, NoName, 0)
    \/ \E n \in Two, a \in {0, 1} : Start(1, "OpenFile", n, NoName, a)
    \/ \E n \in Two, a \in 1..MaxData : Start(1, "WriteFile", n, NoName, a)
    \/ \E n \in Two, a \in Sizes : Start(1, "Truncate", n, NoName, a)
    \/ \E n \in Two, a \in Times : Start(1, "Chtimes", n, NoName, a)
    \/ \E n \in Two, n2 \in Two : Start(1, "Rename", n, n2, 0)
    \/ Step(1)
    \/ expireRemove(1)
    \/ evictRecv
    \/ evictCheck
    \/ Tick

SpecAge == InitAge /\ [][NextAge]_vars

----------------------------------------------------------------------------
(* SpecExpiry: the operations of SpecAge under each setting of MaxAge:     *)
(* negative, zero and 1, with no other bound.                              *)

\* Config{MaxAge: d} for d < 0, d = 0 and d > 0
ExpiryConfigs == {[AgeConfig EXCEPT !.MaxAge = d] : d \in {-1, 0, 1}}

InitExpiry ==
    /\ \E c \in ExpiryConfigs, d \in AgeStores : New(c, d)
    /\ now = 0

\* Open passes the check twice, Stat once, Create and Remove not at all
ExpiryOps == {"Open", "Stat", "Create", "Remove"}

NextExpiry ==
    \/ \E op \in ExpiryOps, n \in Two : Start(1, op, n, NoName, 0)
    \/ Step(1)
    \/ expireRemove(1)
    \/ evictRecv
    \/ evictCheck
    \/ Tick

SpecExpiry == InitExpiry /\ [][NextExpiry]_vars

----------------------------------------------------------------------------
(* SpecTwo: two callers at once on the one path a, which New found or did  *)
(* not find, under a bound of two files that is never exceeded.            *)

InitTwo ==
    /\ \E d \in Stores({"a"}, 1) : New(FilesConfig, d)
    /\ now = 0

NextTwo ==
    \/ \E p \in Pids : Start(p, "WriteFile", "a", NoName, 1)
    \/ \E p \in Pids, s \in Sizes : Start(p, "Truncate", "a", NoName, s)
    \/ \E p \in Pids : Start(p, "Stat", "a", NoName, 0)
    \/ \E p \in Pids : Start(p, "Remove", "a", NoName, 0)
    \/ \E p \in Pids : Step(p)
    \/ evictRecv
    \/ evictCheck
    \/ Tick

SpecTwo == InitTwo /\ [][NextTwo]_vars

----------------------------------------------------------------------------
(* SpecNew: New itself, on stores of files and directories among a, b, c   *)
(* whose scan can fail at any entry, under MaxFiles = 2; after a           *)
(* successful New the caller creates, stats and removes.                   *)

\* the stores of SpecNew: each of a, b, c is a 1-byte file last accessed at
\* time 0 or 1, a directory, or not there
NewStores ==
    {d \in [Names -> {NoInfo, DirInfo, FileInfo(1, 0), FileInfo(1, 1)}] :
        \A n \in Names \ Three : d[n] = NoInfo}

InitNew ==
    /\ \E d \in NewStores : Constructing(FilesConfig, d)
    /\ now = 1

NextNew ==
    \/ newWalk(1)
    \/ newReturn(1)
    \/ \E n \in Three : Start(1, "Create", n, NoName, 0)
    \/ \E n \in Three : Start(1, "Stat", n, NoName, 0)
    \/ \E n \in Three : Start(1, "Remove", n, NoName, 0)
    \/ Step(1)
    \/ evictRecv
    \/ evictCheck
    \/ evictRemove
    \/ Tick

SpecNew == InitNew /\ [][NextNew]_vars

----------------------------------------------------------------------------
(* SpecGone: MaxFiles = 1 over two paths whose files another user of the   *)
(* backing store may delete, and where a directory may be made in their    *)
(* place, and one caller that reads, stats, opens and creates; evictLoop's *)
(* Remove may fail with the file left where it is.                         *)

\* Config{MaxFiles: 1}
OneFileConfig == [MaxFiles |-> 1, MaxSize |-> 0, MaxAge |-> 0]

InitGone ==
    /\ \E d \in Stores(Two, 1) : New(OneFileConfig, d)
    /\ now = 0

NextGone ==
    \/ \E op \in {"Stat", "Open", "ReadFile", "Create"}, n \in Two :
          Start(1, op, n, NoName, 0)
    \/ \E n \in Two : Start(1, "Remove", n, NoName, 0)
    \/ Step(1)
    \/ evictRecv
    \/ evictCheck
    \/ evictRemove
    \/ evictRemoveErr
    \/ \E n \in Two : BackingDelete(n)
    \/ \E n \in Two : BackingMkdir(n)
    \/ Tick

SpecGone == InitGone /\ [][NextGone]_vars

----------------------------------------------------------------------------
(* SpecErr: all three bounds over two paths, and one caller of every       *)
(* method that touches or untracks, whose backing call may fail: on a      *)
(* path that is not there, on one that is, or for a reason of the backing  *)
(* store's own.                                                            *)

\* the methods with one path and no other argument
PlainOps == {"Remove", "RemoveAll", "ReadFile", "Stat", "Lstat", "Chown", "Chmod", "Lchown"}

InitErr ==
    /\ New(AllBounds, [EmptyStore EXCEPT !["a"] = FileInfo(1, 0)])
    /\ now = 0

NextErr ==
    \/ \E op \in PlainOps, n \in Two : Start(1, op, n, NoName, 0)
    \/ \E n \in Two, flag \in 0..1 : Start(1, "OpenFile", n, NoName, flag)
    \/ \E n \in Two, n2 \in Two : Start(1, "Rename", n, n2, 0)
    \/ \E op \in {"Truncate", "WriteFile", "Symlink"}, n \in Two :
          Start(1, op, n, NoName, MaxData)
    \/ \E n \in Two : Start(1, "Chtimes", n, NoName, now)
    \/ Step(1)
    \/ callErr(1)
    \/ expireRemove(1)
    \/ evictRecv
    \/ evictCheck
    \/ evictRemove
    \/ Tick

SpecErr == InitErr /\ [][NextErr]_vars

----------------------------------------------------------------------------
(* SpecTree: MaxFiles = 2 over a file "d" and a file in each of the        *)
(* directories "dir" and "dir2", and one caller that writes and stats the  *)
(* files, renames the directories, and removes files and directories with  *)
(* RemoveAll, which may fail.                                              *)

Tree == {"d", "dir/f", "dir2/f"}
\* the directories Rename is called with
Dirs == {"dir", "dir2"}
\* the paths RemoveAll is called with
Removed == {"d", "dir", "dir2", "dir/f", "."}

InitTree ==
    /\ \E d \in Stores(Tree, 1) : New(FilesConfig, d)
    /\ now = 0

NextTree ==
    \/ \E n \in Tree, a \in 0..MaxData : Start(1, "WriteFile", n, NoName, a)
    \/ \E n \in Tree : Start(1, "Stat", n, NoName, 0)
    \/ \E n \in Removed : Start(1, "RemoveAll", n, NoName, 0)
    \/ \E n \in Dirs, n2 \in Dirs : Start(1, "Rename", n, n2, 0)
    \/ Step(1)
    \/ callErr(1)
    \/ evictRecv
    \/ evictCheck
    \/ evictRemove

SpecTree == InitTree /\ [][NextTree]_vars

----------------------------------------------------------------------------
(* SpecHandle: MaxFiles = 1 over two paths, and one caller that opens or   *)
(* creates a file and then writes to and truncates the handle it got, or   *)
(* removes a file, while evictLoop evicts.                                 *)

InitHandle ==
    /\ \E d \in Stores(Two, 1) : New(OneFileConfig, d)
    /\ now = 0

NextHandle ==
    \/ \E op \in {"Open", "Create", "Remove"}, n \in Two : Start(1, op, n, NoName, 0)
    \/ \E op \in HandleOps, n \in Two, a \in 0..MaxData :
          HasHandle(1, n) /\ Start(1, op, n, NoName, a)
    \/ Step(1)
    \/ \E ok \in BOOLEAN : handleCall(1, ok)
    \/ evictRecv
    \/ evictCheck
    \/ evictRemove
    \/ Tick

SpecHandle == InitHandle /\ [][NextHandle]_vars

----------------------------------------------------------------------------
(* unionfs: one read-write layer over read-only layers.  A layer is a      *)
(* function from paths to what is stored there; the union u is             *)
(* [rw, ro, copyOnRead] with roCalls, the methods the operation under way  *)
(* has called on a read-only layer.  Every operation yields [u, err, list]: the union      *)
(* after it, its error ("nil", "NotExist" or "Other") and, for ReadDir,    *)
(* the names it returns.                                                   *)

\* the names callers use, all in the root directory
UNames == {"a", "b"}
\* path.Join(dir, ".wh."+file)
Whiteout(n) ==
    CASE n = "a" -> ".wh.a"
      [] n = "b" -> ".wh.b"
      [] OTHER -> ".wh."
UPaths == UNames \cup {Whiteout(n) : n \in UNames}
\* strings.CutPrefix(e.Name(), ".wh.")
CutPrefix(e) ==
    IF \E n \in UNames : e = Whiteout(n)
    THEN [found |-> TRUE, after |-> CHOOSE n \in UNames : e = Whiteout(n)]
    ELSE [found |-> FALSE, after |-> e]

OpenFlags == {"RDONLY", "WRONLY", "CREATE"}
\* flag&O_ACCMODE != O_RDONLY || flag&O_CREATE != 0 || flag&O_TRUNC != 0 || ...
WriteFlag(flag) == flag # "RDONLY"

\* the methods of a layer that leave it as it is
ReadCalls == {"Stat", "Lstat", "Open", "OpenFile:RDONLY", "ReadDir", "ReadLink",
              "ReadFile"}

\* a call of one method on one layer d
LayerCall(d, op, name, name2, arg) ==
    LET e == d[name]
        miss == [err |-> "NotExist", d |-> d, val |-> NoInfo]
        bad == [err |-> "Other", d |-> d, val |-> NoInfo]
        same == [err |-> "nil", d |-> d, val |-> e]
        put(n, x) == [err |-> "nil", d |-> [d EXCEPT ![n] = x], val |-> x]
    IN CASE op \in {"Stat", "Lstat", "Open", "Chmod", "Chown", "Lchown", "Chtimes"} ->
              IF e.kind = "none" THEN miss ELSE same
         [] op = "OpenFile" ->
              IF arg = "RDONLY" THEN (IF e.kind = "none" THEN miss ELSE same)
              ELSE IF e.kind = "dir" THEN bad
              ELSE IF arg = "WRONLY" THEN (IF e.kind = "none" THEN miss ELSE same)
              ELSE put(name, FileInfo(0, 0))
         [] op = "WriteFile" ->
              IF e.kind = "dir" THEN bad ELSE put(name, FileInfo(arg, 0))
         [] op = "ReadFile" ->
              IF e.kind = "none" THEN miss
              ELSE IF e.kind = "dir" THEN bad ELSE same
         [] op = "Truncate" ->
              IF e.kind = "none" THEN miss
              ELSE IF e.kind = "dir" THEN bad
              ELSE put(name, [e EXCEPT !.size = arg])
         [] op = "Remove" ->
              IF e.kind = "none" THEN miss ELSE put(name, NoInfo)
         [] op = "RemoveAll" -> put(name, NoInfo)
         [] op = "Rename" ->
              IF e.kind = "none" THEN miss
              ELSE IF name2 = name THEN same
              ELSE [err |-> "nil", val |-> e,
                    d |-> [d EXCEPT ![name2] = e, ![name] = NoInfo]]
         [] op = "ReadLink" ->
              IF e.kind = "none" THEN miss
              ELSE IF e.kind = "link" THEN same ELSE bad
         [] op = "Mkdir" ->
              IF e.kind = "none" THEN put(name, DirInfo) ELSE bad
         [] op = "MkdirAll" ->
              IF e.kind = "none" THEN put(name, DirInfo)
              ELSE IF e.kind = "dir" THEN same ELSE bad
         [] op = "Symlink" ->
              IF d[name2].kind = "none" THEN put(name2, LinkInfo(1, 0)) ELSE bad
         [] OTHER -> bad

\* the entries ReadDir of the root returns on layer d
DirEntries(d) == {n \in DOMAIN d : d[n].kind # "none"}

\* the name a call on a layer is logged under
CallTag(op, arg) == IF op = "OpenFile" THEN IF arg = "RDONLY" THEN "OpenFile:RDONLY"
                                                              ELSE "OpenFile:write"
                    ELSE op

\* a call on the read-write layer
rwCall(u, op, name, name2, arg) ==
    LET r == LayerCall(u.rw, op, name, name2, arg)
    IN [u |-> [u EXCEPT !.rw = r.d], err |-> r.err, val |-> r.val]

\* a call on read-only layer i
roCall(u, i, op, name, name2, arg) ==
    LET r == LayerCall(u.ro[i], op, name, name2, arg)
    IN [u |-> [u EXCEPT !.ro[i] = r.d, !.roCalls = @ \cup {CallTag(op, arg)}],
        err |-> r.err, val |-> r.val]

\* for _, ro := range f.ro { if _, err := Stat(ctx, ro, name); err == nil { break } }:
\* the union after the Stats and the layer that has the name, 0 if none has
RECURSIVE findInRO(_, _, _)
findInRO(u, name, i) ==
    IF i > Len(u.ro) THEN [u |-> u, i |-> 0, val |-> NoInfo]
    ELSE LET r == roCall(u, i, "Stat", name, name, 0)
         IN IF r.err = "nil" THEN [u |-> r.u, i |-> i, val |-> r.val]
            ELSE findInRO(r.u, name, i + 1)

\* for _, ro := range f.ro { x, err := op(ctx, ro, name); if err == nil { return }
\* if !errors.Is(err, fs.ErrNotExist) { return err } }
RECURSIVE roScan(_, _, _, _, _)
roScan(u, op, name, arg, i) ==
    IF i > Len(u.ro) THEN [u |-> u, i |-> 0, err |-> "NotExist", val |-> NoInfo]
    ELSE LET r == roCall(u, i, op, name, name, arg)
         IN IF r.err = "NotExist" THEN roScan(r.u, op, name, arg, i + 1)
            ELSE [u |-> r.u, i |-> i, err |-> r.err, val |-> r.val]

Ret(u, err) == [u |-> u, err |-> err, list |-> {}]

\* return err of the call r
Done(r) == Ret(r.u, r.err)

isWhiteout(u, name) == rwCall(u, "Stat", Whiteout(name), NoName, 0).err = "nil"

createWhiteout(u, name) == Done(rwCall(u, "WriteFile", Whiteout(name), NoName, 0))

\* In the operations below a local operator stands for the rest of the
\* method after a call, applied to what the call returned.

copyToRWMutIntoRO(u, name) ==
    LET found(f) ==
            IF f.i = 0 THEN Ret(f.u, "NotExist")
            ELSE Done(roCall(f.u, Len(u.ro), "OpenFile", name, name, "CREATE"))
        checked(st) ==
            IF st.err # "NotExist" THEN Ret(u, st.err)
            ELSE found(findInRO(u, name, 1))
    IN checked(rwCall(u, "Stat", name, NoName, 0))
copyToRW(u, name) ==
    LET copied(c) ==
            Ret(rwCall(c.u, "Remove", Whiteout(name), NoName, 0).u, "nil")
        created(out, data) ==
            IF out.err # "nil" THEN Done(out)
            ELSE copied(rwCall(out.u, "WriteFile", name, NoName, data))
        opened(in) ==
            IF in.err # "nil" THEN Done(in)
            ELSE created(rwCall(in.u, "OpenFile", name, NoName, "CREATE"),
                         in.val.size)
        found(f) ==
            IF f.i = 0 THEN Ret(f.u, "NotExist")
            ELSE IF f.val.kind = "dir"
                 THEN Done(rwCall(f.u, "MkdirAll", name, NoName, 0))
            ELSE opened(roCall(f.u, f.i, "Open", name, name, 0))
        checked(st) ==
            IF st.err # "NotExist" THEN Ret(u, st.err)
            ELSE found(findInRO(u, name, 1))
    IN checked(rwCall(u, "Stat", name, NoName, 0))

\* the read-only open: lines 155-185
openRead(u, name, flag) ==
    LET copied(c) ==
            IF c.err # "nil" THEN c
            ELSE Done(rwCall(c.u, "OpenFile", name, NoName, flag))
        scanned(s) ==
            IF s.err = "nil" /\ u.copyOnRead THEN copied(copyToRW(s.u, name))
            ELSE Done(s)
        tried(r) ==
            IF r.err # "NotExist" THEN Done(r)
            ELSE IF isWhiteout(u, name) THEN Ret(u, "NotExist")
            ELSE scanned(roScan(u, "OpenFile", name, flag, 1))
    IN tried(rwCall(u, "OpenFile", name, NoName, flag))

OpenFile(u, name, flag) ==
    LET copied(c) ==
            IF c.err \notin {"nil", "NotExist"} THEN c
            ELSE Done(rwCall(c.u, "OpenFile", name, NoName, flag))
    IN IF WriteFlag(flag) THEN copied(copyToRW(u, name))
       ELSE openRead(u, name, flag)

Open(u, name) == OpenFile(u, name, "RDONLY")

Create(u, name) == OpenFile(u, name, "CREATE")

Remove(u, name) ==
    LET found(f, err) ==
            IF f.i # 0 THEN createWhiteout(f.u, name) ELSE Ret(f.u, err)
        removed(r) ==
            IF r.err \notin {"nil", "NotExist"} THEN Done(r)
            ELSE found(findInRO(r.u, name, 1), r.err)
    IN removed(rwCall(u, "Remove", name, NoName, 0))

\* Stat, Lstat and ReadLink: the read-write layer, then the whiteout, then
\* the read-only layers in order
Lookup(u, op, name) ==
    LET tried(r) ==
            IF r.err # "NotExist" THEN Done(r)
            ELSE IF isWhiteout(u, name) THEN Ret(u, "NotExist")
            ELSE Done(roScan(u, op, name, 0, 1))
    IN tried(rwCall(u, op, name, NoName, 0))

\* ReadDir of the root, which every layer has
RECURSIVE roEntries(_, _, _, _)
roEntries(u, i, entries, whiteouts) ==
    IF i > Len(u.ro) THEN entries
    ELSE roEntries(u, i + 1,
                   entries \cup (DirEntries(u.ro[i]) \ whiteouts), whiteouts)
ReadDir(u) ==
    LET rwEntries == DirEntries(u.rw)
        whiteouts == {CutPrefix(e).after : e \in {x \in rwEntries : CutPrefix(x).found}}
        entries == {e \in rwEntries : ~CutPrefix(e).found}
        logged == IF Len(u.ro) > 0 THEN [u EXCEPT !.roCalls = @ \cup {"ReadDir"}]
                  ELSE u
    IN [u |-> logged, err |-> "nil",
        list |-> roEntries(u, 1, entries, whiteouts)]

\* Mkdir and MkdirAll
Mkdir(u, op, name) ==
    LET made(m) ==
            IF m.err # "nil" THEN Done(m)
            ELSE Ret(rwCall(m.u, "Remove", Whiteout(name), NoName, 0).u, "nil")
    IN made(rwCall(u, op, name, NoName, 0))

RemoveAll(u, name) ==
    LET found(f) ==
            IF f.i # 0 THEN createWhiteout(f.u, name) ELSE Ret(f.u, "nil")
        removed(r) ==
            IF r.err # "nil" THEN Done(r) ELSE found(findInRO(r.u, name, 1))
    IN removed(rwCall(u, "RemoveAll", name, NoName, 0))

Rename(u, oldname, newname) ==
    LET renamed(r, inRO) ==
            IF r.err # "nil" THEN Done(r)
            ELSE IF inRO THEN createWhiteout(r.u, oldname)
            ELSE Ret(r.u, "nil")
        copied(c, inRO) ==
            IF c.err # "nil" THEN c
            ELSE renamed(rwCall(c.u, "Rename", oldname, newname, 0), inRO)
        found(f) == copied(copyToRW(f.u, oldname), f.i # 0)
        checked(st) ==
            IF st.err # "nil" THEN st ELSE found(findInRO(st.u, oldname, 1))
    IN checked(Lookup(u, "Stat", oldname))

Symlink(u, oldname, newname) ==
    LET linked(s) ==
            IF s.err # "nil" THEN Done(s)
            ELSE Ret(rwCall(s.u, "Remove", Whiteout(newname), NoName, 0).u, "nil")
    IN linked(rwCall(u, "Symlink", oldname, newname, 0))

\* Lchown, Truncate, Chown, Chmod and Chtimes: copyToRW, then the call on
\* the read-write layer
CopyThen(u, op, name, arg) ==
    LET copied(c) ==
            IF c.err # "nil" THEN c
            ELSE Done(rwCall(c.u, op, name, NoName, arg))
    IN copied(copyToRW(u, name))

WriteFile(u, name, data) == Done(rwCall(u, "WriteFile", name, NoName, data))

ReadFile(u, name) ==
    LET scanned(s) ==
            IF s.err = "nil" /\ u.copyOnRead
            THEN WriteFile(s.u, name, s.val.size)
            ELSE Done(s)
        tried(r) ==
            IF r.err # "NotExist" THEN Done(r)
            ELSE scanned(roScan(u, "ReadFile", name, 0, 1))
    IN tried(rwCall(u, "ReadFile", name, NoName, 0))

----------------------------------------------------------------------------
(* SpecUnion: a union of a read-write layer over two read-only layers; one *)
(* caller issues the methods of the union on the names a and b.  The       *)
(* variable layers is [u, op, name, err, list, hidden]: the union, the     *)
(* last call and what it returned, and hidden, the names removed while a   *)
(* read-only layer had them and not created again since.                   *)

evictVars == <<config, now, disk, files, item, pq, currentSize, evictSignal,
               mu, fg, epc, ename, panicked>>

\* no evictfs facade is constructed in this specification
NoFacade ==
    /\ config = NoBounds
    /\ now = 0
    /\ disk = EmptyStore
    /\ files = EmptyIndex.files
    /\ item = EmptyIndex.item
    /\ pq = EmptyIndex.pq
    /\ currentSize = 0
    /\ evictSignal = 0
    /\ mu = NoOwner
    /\ fg = [p \in Pids |-> Idle]
    /\ epc = "off"
    /\ ename = NoName
    /\ panicked = FALSE

EmptyLayer == [n \in UPaths |-> NoInfo]
\* the first read-only layer holds files, directories and links, the second
\* a file that the first may shadow
UpperLayers == {[EmptyLayer EXCEPT !["a"] = x, !["b"] = y] :
                   x \in {NoInfo, FileInfo(1, 0), DirInfo, LinkInfo(1, 0)},
                   y \in {NoInfo, FileInfo(1, 0)}}
LowerLayers == {[EmptyLayer EXCEPT !["a"] = FileInfo(0, 0)]}

\* New(rw, ro...)
NewUnion(rw, ro) == [rw |-> rw, ro |-> ro, copyOnRead |-> FALSE, roCalls |-> {}]

\* the union as a call finds it: nothing called on a read-only layer yet
U == [layers.u EXCEPT !.roCalls = {}]

InRO(u, n) == \E i \in 1..Len(u.ro) : u.ro[i][n].kind # "none"

\* the caller's call has returned r
Return(op, name, r, hid) ==
    /\ layers' = [u |-> r.u, op |-> op, name |-> name, err |-> r.err,
                  list |-> r.list, hidden |-> hid]
    /\ UNCHANGED evictVars

\* a call that removes the name: hidden if a read-only layer has it
Removes(op, name, r) ==
    Return(op, name, r,
           IF r.err = "nil" /\ InRO(layers.u, name)
           THEN layers.hidden \cup {name} ELSE layers.hidden)

\* a call that creates the name
Creates(op, name, r) ==
    Return(op, name, r,
           IF r.err = "nil" THEN layers.hidden \ {name} ELSE layers.hidden)

\* any other call
Calls(op, name, r) == Return(op, name, r, layers.hidden)

SetCopyOnRead(enabled) ==
    /\ layers.u.copyOnRead # enabled
    /\ Calls("SetCopyOnRead", NoName,
             Ret([U EXCEPT !.copyOnRead = enabled], "nil"))

unionOpen(n) == Calls("Open", n, Open(U, n))

unionOpenFile(n, flag) ==
    IF flag = "CREATE" THEN Creates("OpenFile", n, OpenFile(U, n, flag))
    ELSE Calls("OpenFile", n, OpenFile(U, n, flag))

unionCreate(n) == Creates("Create", n, Create(U, n))

unionRemove(n) == Removes("Remove", n, Remove(U, n))

\* Stat, Lstat and ReadLink
unionLookup(op, n) == Calls(op, n, Lookup(U, op, n))

unionReadDir == Calls("ReadDir", ".", ReadDir(U))

unionMkdir(op, n) == Creates(op, n, Mkdir(U, op, n))

unionRemoveAll(n) == Removes("RemoveAll", n, RemoveAll(U, n))

\* Rename removes oldname and creates newname
unionRename(n, n2) ==
    LET r == Rename(U, n, n2)
    IN Return("Rename", n, r,
              IF r.err # "nil" \/ n = n2 THEN layers.hidden
              ELSE (layers.hidden \ {n2})
                      \cup (IF InRO(U, n) THEN {n} ELSE {}))

unionSymlink(n, n2) == Creates("Symlink", n2, Symlink(U, n, n2))

unionCopyThen(op, n, arg) == Calls(op, n, CopyThen(U, op, n, arg))

unionWriteFile(n, data) == Creates("WriteFile", n, WriteFile(U, n, data))

unionReadFile(n) == Calls("ReadFile", n, ReadFile(U, n))

CopyThenOps == {"Lchown", "Truncate", "Chown", "Chmod", "Chtimes"}

InitUnion ==
    /\ NoFacade
    /\ \E upper \in UpperLayers, lower \in LowerLayers :
          layers = [u |-> NewUnion(EmptyLayer, <<upper, lower>>), op |-> "New",
                    name |-> NoName, err |-> "nil", list |-> {}, hidden |-> {}]

NextUnion ==
    \/ \E enabled \in BOOLEAN : SetCopyOnRead(enabled)
    \/ \E n \in UNames : unionOpen(n)
    \/ \E n \in UNames, flag \in OpenFlags : unionOpenFile(n, flag)
    \/ \E n \in UNames : unionCreate(n)
    \/ \E n \in UNames : unionRemove(n)
    \/ \E n \in UNames, op \in {"Stat", "Lstat", "ReadLink"} : unionLookup(op, n)
    \/ unionReadDir
    \/ \E n \in UNames, op \in {"Mkdir", "MkdirAll"} : unionMkdir(op, n)
    \/ \E n \in UNames : unionRemoveAll(n)
    \/ \E n \in UNames, n2 \in UNames : unionRename(n, n2)
    \/ \E n2 \in UNames : unionSymlink("a", n2)
    \/ \E n \in UNames, op \in CopyThenOps : unionCopyThen(op, n, 0)
    \/ \E n \in UNames : unionWriteFile(n, 1)
    \/ \E n \in UNames : unionReadFile(n)

SpecUnion == InitUnion /\ [][NextUnion]_vars

----------------------------------------------------------------------------
(* Properties                                                              *)

RECURSIVE SumSizes(_)
SumSizes(S) ==
    IF S = {} THEN 0
    ELSE LET n == CHOOSE x \in S : TRUE
         IN item[files[n]].size + SumSizes(S \ {n})

\* C1: whenever e.mu is not held, currentSize is the sum of metadata.Size()
\* over the tracked items
C1_CurrentSizeIsSum ==
    mu = NoOwner => currentSize = SumSizes(Tracked)

\* a lock-free state after a Rename went through untrack and touch while the
\* evictor holds a popped name, with bytes still tracked
C1_Witness ==
    /\ mu = NoOwner
    /\ fg[1].op = "Rename" /\ fg[1].pc = "done" /\ fg[1].ret = "nil"
    /\ epc = "remove"
    /\ currentSize >= 1

\* C2: whenever e.mu is not held, e.files and e.pq hold the same items
C2_RegistryIsHeap ==
    mu = NoOwner =>
        /\ Cardinality(Tracked) = Len(pq)
        /\ \A n \in Tracked : InPq(Index, files[n])
        /\ \A k \in 1..Len(pq) :
              /\ item[pq[k]].name \in Names
              /\ files[item[pq[k]].name] = pq[k]

\* a lock-free state in which the evictor has just popped one of two items
C2_Witness ==
    /\ mu = NoOwner
    /\ epc = "remove"
    /\ Len(pq) = 1
    /\ Cardinality(Tracked) = 1

\* every item of the heap is where its index says
IndexLocates ==
    \A k \in 1..Len(pq) : item[pq[k]].index = k - 1

\* an item that leaves the heap has index -1 in the state it has left it
RemovedIsOutOfRange ==
    \A id \in ItemIds :
        (InPq(Index, id) /\ ~(\E k \in 1..Len(pq') : pq'[k] = id)) => item'[id].index = -1

\* C3: after any sequence of push, pop, fix and remove-at-index every item of
\* the heap is at pq.items[it.index], and an item removed from the heap has
\* index -1 from the step that removes it
C3_IndexInvariant ==
    /\ []IndexLocates
    /\ [][RemovedIsOutOfRange]_vars

\* a full heap whose root is not the item pushed first
C3_Witness ==
    /\ Len(pq) = Len(NameOrder)
    /\ item[pq[1]].name # "a"
    /\ \E k \in 2..Len(pq) : item[pq[k]].atime > item[pq[1]].atime

\* no caller is inside a facade method
Quiet == \A p \in Pids : fg[p].pc \in {"idle", "done"}

WithinMaxFiles == config.MaxFiles > 0 => Cardinality(Tracked) <= config.MaxFiles
WithinMaxSize == config.MaxSize > 0 => currentSize <= config.MaxSize

\* New's initial scan was within MaxFiles and MaxSize
ScanWithinBounds == InitFiles /\ WithinMaxFiles
SpecFilesWithin == ScanWithinBounds /\ [][NextFiles]_vars /\ EvictorFair
SpecSizeWithin == InitSize /\ WithinMaxSize /\ [][NextSize]_vars /\ EvictorFair

\* with the lock free and a bound exceeded, a signal is pending or evictLoop
\* is in its inner loop (an invariant of SpecFilesWithin and SpecSizeWithin, not
\* of SpecFiles and SpecSize)
NoLostWakeup ==
    (mu = NoOwner /\ ~(WithinMaxFiles /\ WithinMaxSize)) =>
        (evictSignal > 0 \/ epc \in {"check", "remove"})

NeverPanics == ~panicked

\* C4: with MaxFiles = N > 0, once the callers have stopped and evictLoop is
\* scheduled fairly, len(e.files) <= N holds from some point on
C4_EventuallyWithinMaxFiles ==
    <>[]Quiet => <>[]WithinMaxFiles

\* the step in which evictLoop pops its victim under the lock
Pops == epc = "check" /\ epc' = "remove"

\* the access time the index holds for a tracked path
Tracks(n) == item[files[n]].atime

\* C6: the item evictLoop pops is tracked and no tracked item has an earlier
\* access time; with a, b, c tracked in increasing order of access time the
\* victim is a, and b and c stay tracked
C6_EvictsLessMinimal ==
    [][Pops =>
          /\ ename' \in Tracked
          /\ \A n \in Tracked : ~(Tracks(n) < Tracks(ename'))
          /\ Tracked' = Tracked \ {ename'}
          /\ (/\ Tracked = {"a", "b", "c"}
              /\ Tracks("a") < Tracks("b")
              /\ Tracks("b") < Tracks("c")) => (ename' = "a" /\ Tracked' = {"b", "c"})
      ]_vars

\* a, b and c were created at times 0, 1 and 2, and evictLoop has popped a
C6_Witness ==
    /\ epc = "remove" /\ ename = "a"
    /\ fg[1].op = "Create" /\ fg[1].name = "c" /\ fg[1].pc = "done"
    /\ Tracked = {"b", "c"}
    /\ disk["a"] = FileInfo(0, 0)
    /\ Tracks("b") = 1 /\ Tracks("c") = 2

\* C7: touch on a tracked path fetches the backing info under the lock and
\* stores it in the item before the lock is free again, so no eviction
\* decision falls between the fetch and the update; with a, b, c tracked and b
\* the one accessed first (a refreshed after b was created) the victim is b
C7_TouchRefreshesBeforeEviction ==
    [][/\ (fg[1].pc = "tstat" /\ fg'[1].pc = "tupd") =>
              fg'[1].info = disk[TouchName(fg[1])]
       /\ (fg[1].pc = "tupd" /\ fg'[1].pc = "done") =>
              /\ files' = files
              /\ item'[files[TouchName(fg[1])]].size = fg[1].info.size
              /\ item'[files[TouchName(fg[1])]].atime = fg[1].info.atime
       /\ fg[1].pc \in {"tstat", "tupd"} => ~Pops
       /\ (/\ Pops
           /\ Tracked = {"a", "b", "c"}
           /\ Tracks("b") < Tracks("a")
           /\ Tracks("b") < Tracks("c")) => ename' = "b"
      ]_vars

\* Stat(a) has returned after touch's update branch stored a later access
\* time for a than the one b has, and b is now the root of the heap
C7_Witness ==
    /\ fg[1].op = "Stat" /\ fg[1].name = "a" /\ fg[1].pc = "done" /\ fg[1].ret = "nil"
    /\ fg[1].info.kind = "file"
    /\ Tracked = {"a", "b"}
    /\ Tracks("a") = fg[1].info.atime
    /\ Tracks("a") > Tracks("b")
    /\ pq[1] = files["b"]

\* with 15-byte a and 10-byte b tracked, a the older one, evictLoop pops a
\* and currentSize is 10
OlderFileEvicted ==
    (/\ Pops
     /\ Tracked = {"a", "b"}
     /\ item[files["a"]].size = 15 /\ item[files["b"]].size = 10
     /\ Tracks("a") < Tracks("b")) => (ename' = "a" /\ currentSize' = 10)

\* C5: with MaxSize = S > 0, once the callers have stopped and evictLoop is
\* scheduled fairly, a state with currentSize <= S is reached; with S = 20, a
\* of 15 bytes and a newer b of 10 bytes, a is evicted and currentSize is 10
C5_EventuallyWithinMaxSize ==
    /\ <>[]Quiet => []<>WithinMaxSize
    /\ [][OlderFileEvicted]_vars

\* the call caller 1 is in, or has returned from, is one of the operations
\* the expiration check gates
InGated ==
    /\ fg[1].op \in {"Open", "OpenFile", "ReadFile", "Stat", "Lstat", "Rename",
                     "Lchown", "Truncate", "Chown", "Chmod", "Chtimes"}
    /\ fg[1].op = "OpenFile" => fg[1].arg = 0

\* ... or one of those that (re)populate content
InBypass ==
    \/ fg[1].op \in {"Create", "WriteFile"}
    \/ fg[1].op = "OpenFile" /\ fg[1].arg = 1

Returned == fg[1].pc = "done"

\* the number of heap entries for path n
Entries(n) == Cardinality({k \in 1..Len(pq) : item[pq[k]].name = n})

\* C8: a gated operation on a path that is tracked and older than MaxAge > 0
\* returns fs.ErrNotExist after one backing Remove and without its backing
\* call, the path is untracked, and the step that untracks it takes its size
\* off currentSize
C8_ExpiredIsNotExist ==
    /\ []((Returned /\ InGated /\ fg[1].exp) =>
             /\ fg[1].ret = "ErrNotExist"
             /\ fg[1].rm = 1
             /\ ~fg[1].called
             /\ files[fg[1].name] = NoItem
             /\ Entries(fg[1].name) = 0)
    /\ [][(InGated /\ fg[1].exp /\ fg[1].pc \in {"chkOpen", "chk"}
                  /\ fg'[1].pc # fg[1].pc) =>
             /\ fg'[1].pc = "expire"
             /\ files'[fg[1].name] = NoItem
             /\ currentSize' = currentSize - item[files[fg[1].name]].size
             /\ disk' = disk
          ]_vars

\* Rename(a, b) of a stale a has returned fs.ErrNotExist
C8_Witness ==
    /\ Returned /\ fg[1].op = "Rename" /\ fg[1].name = "a" /\ fg[1].name2 = "b"
    /\ fg[1].exp
    /\ fg[1].ret = "ErrNotExist"
    /\ disk["a"] = NoInfo /\ disk["b"] = NoInfo
    /\ Tracked = {}

\* C9: Create, OpenFile with O_CREATE and WriteFile on a path that is tracked
\* and older than MaxAge go straight to the backing call, issue no backing
\* Remove, succeed exactly when the backing call does, and leave the path
\* tracked once with the size and access time of the backing store
C9_CreateBypassesExpiry ==
    /\ []((Returned /\ InBypass /\ fg[1].exp) =>
             /\ fg[1].called
             /\ fg[1].rm = 0
             /\ fg[1].ret \in {"nil", "BackingErr"}
             /\ fg[1].ret = "nil" =>
                   /\ files[fg[1].name] # NoItem
                   /\ Entries(fg[1].name) = 1
                   /\ item[files[fg[1].name]].size = disk[fg[1].name].size
                   /\ item[files[fg[1].name]].atime = disk[fg[1].name].atime)
    /\ [][(InBypass /\ fg[1].exp /\ fg[1].pc = "call" /\ fg'[1].pc # "call") =>
             (fg'[1].pc = "tlock") =
                BackingCall(disk, fg[1].op, fg[1].name, fg[1].name2, fg[1].arg, now).ok
          ]_vars

\* WriteFile(a) on a stale a has returned nil at time 2 and a is tracked with
\* the access time of the write
C9_Witness ==
    /\ Returned /\ fg[1].op = "WriteFile" /\ fg[1].name = "a"
    /\ fg[1].exp
    /\ fg[1].ret = "nil"
    /\ now = 2
    /\ Tracked = {"a"}
    /\ Tracks("a") = 2

\* C10: ReadLink on a path that is tracked and older than MaxAge > 0 returns
\* fs.ErrNotExist and leaves the path untracked
C10_ReadLinkGated ==
    (Returned /\ fg[1].op = "ReadLink" /\ fg[1].exp) =>
        /\ fg[1].ret = "ErrNotExist"
        /\ files[fg[1].name] = NoItem

\* path n, if tracked, is in the heap where its index says
ValidIndex(n) ==
    files[n] # NoItem =>
        /\ 0 <= item[files[n]].index
        /\ item[files[n]].index < Len(pq)
        /\ pq[item[files[n]].index + 1] = files[n]

\* no path has two heap entries, and every tracked path has a valid index
HeapIntact ==
    mu = NoOwner => \A n \in Names : Entries(n) <= 1 /\ ValidIndex(n)

\* after Remove has returned nil its path is not in the registry or the heap,
\* and evictLoop does not pop it
RemovedIsUntracked ==
    (Returned /\ fg[1].op = "Remove" /\ fg[1].ret = "nil") =>
        /\ files[fg[1].name] = NoItem
        /\ Entries(fg[1].name) = 0
        /\ Pops => ename' # fg[1].name

\* the step in which a Create that follows a successful Remove of the same,
\* tracked, path returns nil
Recreates ==
    /\ fg[1].op = "Create" /\ fg[1].again
    /\ fg[1].pc # "done" /\ fg'[1].pc = "done" /\ fg'[1].ret = "nil"

\* C11: a successful Remove of a tracked path leaves it out of the registry
\* and the heap, so that evictLoop never pops it, and the Create of the same
\* path that follows leaves it tracked, with one heap entry at a valid index
C11_RemoveThenRecreate ==
    /\ []HeapIntact
    /\ [][RemovedIsUntracked]_vars
    /\ [][Recreates => (files'[fg[1].name] # NoItem /\ Entries(fg[1].name)' = 1)]_vars

\* the part of C11 about the heap: whatever the interleaving, Remove untracks
\* and no path ever has a duplicate heap entry or a stale index
C11_HeapSurvivesRecreation ==
    /\ []HeapIntact
    /\ [][RemovedIsUntracked]_vars

\* New has returned an error
ScanFailed == fg[1].op = "New" /\ fg[1].pc = "done" /\ fg[1].ret = "ScanErr"

\* the step in which New returns the facade
NewReturns == fg[1].op = "New" /\ fg[1].pc = "walk" /\ fg'[1].pc = "done" /\ fg'[1].ret = "nil"

\* the entries of the backing store that are not directories
NonDirs == {n \in Names : disk[n].kind \notin {"none", "dir"}}

\* C12: when the scan fails New returns the error and no facade: evictLoop is
\* not started, then or later, and no operation is ever called; New returns a
\* facade only after a walk in which no entry failed, so that every file of
\* the store is in the registry
C12_FailedScanAbortsNew ==
    /\ [](ScanFailed => ~Constructed)
    /\ [][ScanFailed => (fg' = fg /\ epc' = epc /\ disk' = disk)]_vars
    /\ [][NewReturns => (fg[1].arg > Len(NameOrder) /\ NonDirs \subseteq Tracked)]_vars

\* Info() failed on b after a had been added: New has returned the error
C12_Witness ==
    /\ ScanFailed
    /\ fg[1].arg = 2
    /\ disk["a"].kind = "file" /\ disk["b"].kind = "file"
    /\ Tracked = {"a"}
    /\ epc = "off"

\* C13: when New returns the facade the registry holds exactly the entries
\* of the store that are not directories, each in one item with the size and
\* access time of the store, and currentSize is the sum of their sizes; the
\* scanned files are evicted like any other: evictLoop pops a tracked item
\* with the earliest access time, so with a and b scanned, a the older, and c
\* created the victim is a
C13_ScanSeedsRegistry ==
    /\ [][NewReturns =>
             /\ Tracked' = NonDirs
             /\ \A n \in NonDirs :
                   /\ Entries(n) = 1
                   /\ item[files[n]].size = disk[n].size
                   /\ item[files[n]].atime = disk[n].atime
             /\ Len(pq) = Cardinality(NonDirs)
             /\ currentSize' = SumSizes(NonDirs)
          ]_vars
    /\ [][Pops =>
             /\ \A n \in Tracked : ~(Tracks(n) < Tracks(ename'))
             /\ (/\ Tracked = {"a", "b", "c"}
                 /\ Tracks("a") < Tracks("b")
                 /\ Tracks("a") < Tracks("c")) => ename' = "a"
          ]_vars

\* a (last accessed at 0) and b (at 1) were scanned, c was created, and
\* evictLoop has popped a, whose file is still as the scan found it
C13_Witness ==
    /\ epc = "remove" /\ ename = "a"
    /\ fg[1].op = "Create" /\ fg[1].name = "c" /\ fg[1].pc = "done" /\ ~fg[1].was
    /\ disk["a"] = FileInfo(1, 0)
    /\ Tracked = {"b", "c"}
    /\ Tracks("b") = 1 /\ item[files["b"]].size = 1

\* C14: when Stat, Open or ReadFile on a path that was tracked at the call
\* has failed in the backing store, the path is no longer tracked
C14_MissingFileIsUntracked ==
    (/\ Returned
     /\ fg[1].op \in {"Stat", "Open", "ReadFile"}
     /\ fg[1].was
     /\ fg[1].ret = "BackingErr") => files[fg[1].name] = NoItem

\* caller p is at a call of the backing store: the delegated call of its
\* method, checkExpired's Remove, or touch's Stat
AtBackingCall(p) == fg[p].pc \in {"call", "expire", "tstat"}

\* C15: no caller holds e.mu at a call of the backing store (evictLoop issues
\* its Remove at "remove", and holds e.mu only inside evictCheck)
C15_NoLockAcrossBackingCall ==
    \A p \in Pids : AtBackingCall(p) => mu # p

\* C16: no operation of the union calls a mutating method on a read-only
\* layer: every call it makes on one is Stat, Lstat, Open, a read-only
\* OpenFile, ReadDir, ReadLink or ReadFile, and it leaves every read-only
\* layer as it was
C16_ReadOnlyLayersUntouched ==
    [][/\ layers'.u.roCalls \subseteq ReadCalls
       /\ layers'.u.ro = layers.u.ro]_vars
\* (a Chmod of a file that only a read-only layer had: it was opened there and
\* copied to the read-write layer)
C16_Witness ==
    /\ layers # NoLayers
    /\ layers.op = "Chmod"
    /\ layers.err = "nil"
    /\ "Open" \in layers.u.roCalls
    /\ InRO(layers.u, layers.name)
    /\ layers.u.rw[layers.name].kind = "file"

\* the last call looked the name up and did not report NotExist
Found(ops) ==
    /\ layers.op \in ops
    /\ layers.name \in layers.hidden
    /\ layers.err # "NotExist"
\* the last call was a ReadDir that lists a hidden name
Listed == layers.op = "ReadDir" /\ layers.list \cap layers.hidden # {}

\* C17: after a successful Remove or RemoveAll of a name that a read-only
\* layer has, and until the name is created again, Stat, Lstat, Open,
\* ReadLink and ReadFile of it report NotExist and ReadDir omits it
C17_RemovedIsHidden ==
    /\ ~Found({"Stat", "Lstat", "Open", "ReadLink", "ReadFile"})
    /\ ~Listed
\* the same without ReadFile
C17_HiddenFromLookups ==
    /\ ~Found({"Stat", "Lstat", "Open", "ReadLink"})
    /\ ~Listed

\* the item at place k of the heap (k from 1) is not before its parent, the
\* item at place k \div 2
NotBeforeParent(k) == ~(item[pq[k]].atime < item[pq[k \div 2]].atime)

\* C18: whenever e.mu is not held no item of the heap is Less than its
\* parent, also after touch has updated a tracked item in place and called
\* heap.Fix, so the root is a Less-minimal tracked item
C18_HeapOrdered ==
    mu = NoOwner =>
        /\ \A k \in 2..Len(pq) : NotBeforeParent(k)
        /\ \A n \in Tracked : ~(Tracks(n) < item[pq[1]].atime)
\* (a caller has touched the older of two tracked files at a later time, and
\* heap.Fix has moved its item from the root to a leaf)
C18_Witness ==
    /\ mu = NoOwner
    /\ fg[1].pc = "done"
    /\ fg[1].op = "Stat"
    /\ fg[1].ret = "nil"
    /\ fg[1].was
    /\ Len(pq) >= 2
    /\ files[fg[1].name] # NoItem
    /\ item[files[fg[1].name]].index >= 1
    /\ item[files[fg[1].name]].atime > item[pq[1]].atime

\* C19: evictLoop holds e.mu only inside its locked section (the bound check
\* and the pop): it does not hold it while it waits for a signal or while its
\* Remove on the backing store is under way, so a caller can take e.mu then
C19_DeleteOutsideLock ==
    epc \in {"recv", "check", "remove"} => mu # Evictor
\* (evictLoop has popped a path and not yet removed its file, and a caller
\* holds e.mu inside touch)
C19_Witness ==
    /\ epc = "remove"
    /\ ename \in Names
    /\ mu = 1
    /\ fg[1].pc = "tstat"

\* the step in which touch of caller p runs its select on e.evictSignal
Sends(p) ==
    /\ fg'[p].pc = "done"
    /\ \/ fg[p].pc = "tupd"
       \/ /\ fg[p].pc = "tstat"
          /\ disk[TouchName(fg[p])].kind \in {"file", "link"}

\* C20: e.evictSignal never holds more than one signal; touch's send leaves
\* exactly one signal pending, dropping its own when one was pending already;
\* and a caller that has reached the send in touch can take that step
\* whatever evictLoop is doing
C20_SignalNeverQueuesOrBlocks ==
    /\ [](evictSignal \in {0, 1})
    /\ [][\A p \in Pids : Sends(p) => evictSignal' = 1]_vars
    /\ [](\A p \in Pids : (fg[p].pc = "tupd" /\ ~panicked) => ENABLED touchUpdate(p))
\* (a caller's touch has sent while a signal was pending and evictLoop was
\* between its pop and its Remove; touch has returned and one signal is pending)
C20_Witness ==
    /\ fg[1].pc = "done"
    /\ fg[1].full
    /\ fg[1].ret = "nil"
    /\ evictSignal = 1
    /\ epc = "remove"

\* C21: after a scan within the bounds, whenever e.mu is free and a bound is
\* exceeded (len(e.files) > MaxFiles > 0 or currentSize > MaxSize > 0) a signal
\* is pending in e.evictSignal or evictLoop is in its inner loop, before its
\* last bound check: evictLoop never waits on an empty channel while a bound
\* is exceeded
C21_NoWakeupLost ==
    (mu = NoOwner /\ ~(WithinMaxFiles /\ WithinMaxSize)) =>
        (evictSignal = 1 \/ epc \in {"check", "remove"})
\* (a third file is tracked under MaxFiles = 2 by a touch whose own signal was
\* dropped because one was pending; evictLoop has not received it yet)
C21_Witness ==
    /\ mu = NoOwner
    /\ ~WithinMaxFiles
    /\ fg[1].pc = "done"
    /\ fg[1].full
    /\ evictSignal = 1
    /\ epc = "recv"

\* no caller ever calls the facade
NoCalls == \A p \in Pids : fg[p].pc = "idle"

\* C22: when New's scan has tracked more files than MaxFiles (or more bytes
\* than MaxSize) and no caller ever calls the facade, evictLoop, scheduled
\* fairly, brings the index within the bounds
C22_ScanOverBoundIsEvicted ==
    []NoCalls => <>(WithinMaxFiles /\ WithinMaxSize)

\* len(e.files) > MaxFiles > 0, and currentSize > MaxSize > 0
OverMaxFiles == config.MaxFiles > 0 /\ Cardinality(Tracked) > config.MaxFiles
OverMaxSize == config.MaxSize > 0 /\ currentSize > config.MaxSize

\* C23: evictLoop pops an item only when, under the lock, len(e.files) >
\* MaxFiles > 0 or currentSize > MaxSize > 0; so with both bounds 0 it pops
\* nothing, and a pop made for the count alone leaves at least MaxFiles items
C23_NeverOverEvicts ==
    [][Pops =>
          /\ OverMaxFiles \/ OverMaxSize
          /\ (config.MaxFiles = 0 /\ config.MaxSize = 0) => FALSE
          /\ ~OverMaxSize => Cardinality(Tracked') >= config.MaxFiles
          /\ Cardinality(Tracked') = Cardinality(Tracked) - 1
      ]_vars
\* (evictLoop has popped one of three tracked files under MaxFiles = 2 and
\* two stay tracked)
C23_Witness ==
    /\ epc = "remove"
    /\ ename \in Names
    /\ config.MaxFiles = 2
    /\ Cardinality(Tracked) = 2
    /\ Len(pq) = 2

\* evictLoop never pops (SpecAge: MaxFiles = 0 and MaxSize = 0)
NeverPops == [][~Pops]_vars

\* evictLoop is about to enter its locked section with a bound exceeded
AboutToPop == epc = "check" /\ mu = NoOwner /\ OverLimit(Index)

\* C24: whenever evictLoop finds its bound condition true under the lock the
\* heap holds an item, so heap.Pop is never called on an empty heap, whatever
\* Remove, RemoveAll, Rename and expiry have done in between (sizes are never
\* negative)
C24_NeverPopsEmptyHeap ==
    /\ AboutToPop => Len(pq) >= 1
    /\ \A id \in ItemIds : item[id].size >= 0
\* (evictLoop is about to pop with a bound exceeded, after the caller's
\* RemoveAll, Remove or Rename has returned nil)
C24_Witness ==
    /\ AboutToPop
    /\ Len(pq) >= 1
    /\ fg[1].pc = "done"
    /\ fg[1].op \in {"Remove", "RemoveAll", "Rename"}
    /\ fg[1].ret = "nil"

\* the step in which the contextual.Stat of caller p's touch fails
FetchFails(p) ==
    /\ fg[p].pc = "tstat"
    /\ fg'[p].pc # "tstat"
    /\ disk[TouchName(fg[p])].kind = "none"

\* the size the registry holds for path n, 0 if it is not tracked
TrackedSize(n) == IF files[n] = NoItem THEN 0 ELSE item[files[n]].size

\* C25: when the contextual.Stat inside touch fails, touch untracks the path
\* if it was tracked, taking its Size() off currentSize, tracks nothing new,
\* sends no signal, and the facade method that called touch returns nil
C25_FailedFetchUntracks ==
    [][\A p \in Pids : FetchFails(p) =>
          /\ Tracked' = Tracked \ {TouchName(fg[p])}
          /\ currentSize' = currentSize - TrackedSize(TouchName(fg[p]))
          /\ Len(pq') = Cardinality(Tracked')
          /\ evictSignal' = evictSignal
          /\ fg'[p].pc = "done"
          /\ fg'[p].ret = "nil"
          /\ ~panicked'
      ]_vars
\* (Stat of a tracked file has returned nil although the file was deleted
\* from the backing store before touch fetched its metadata; the path is no
\* longer tracked)
C25_Witness ==
    /\ fg[1].pc = "done"
    /\ fg[1].op = "Stat"
    /\ fg[1].ret = "nil"
    /\ fg[1].was
    /\ fg[1].called
    /\ files[fg[1].name] = NoItem
    /\ disk[fg[1].name].kind = "none"
    /\ epc = "recv"

\* the step in which evictLoop or checkExpired calls contextual.Remove on a
\* directory of the backing store
DeletesDirectory ==
    \/ epc = "remove" /\ epc' = "check" /\ disk[ename].kind = "dir"
    \/ \E p \in Pids : /\ fg[p].pc = "expire" /\ fg'[p].pc # "expire"
                       /\ disk[fg[p].name].kind = "dir"

\* C26: whenever e.mu is free no tracked path is a directory of the backing
\* store, also when a path tracked as a file has been replaced by a
\* directory, and neither evictLoop nor checkExpired calls Remove on a
\* directory
C26_DirectoriesNeverTracked ==
    /\ [](mu = NoOwner => \A n \in Tracked : disk[n].kind # "dir")
    /\ [][~DeletesDirectory]_vars

\* after a Stat of a directory has returned nil, and touch with it, the path
\* is not tracked
DirUntrackedByTouch ==
    (Returned /\ fg[1].op = "Stat" /\ fg[1].ret = "nil"
       /\ disk[fg[1].name].kind = "dir") => files[fg[1].name] = NoItem

\* evictLoop and checkExpired call Remove on no directory
DeletesNoDirectory == [][~DeletesDirectory]_vars

\* the index holds for path n exactly the metadata info
Holds(n, info) ==
    /\ files[n] # NoItem
    /\ info.kind \in {"file", "link"}
    /\ item[files[n]].size = info.size
    /\ item[files[n]].atime = info.atime

\* C27: a touch of a tracked path whose backing metadata is what the index
\* already holds changes nothing: its first half takes the size out of
\* currentSize and its second half, under the same hold of e.mu, puts it
\* back, and files, the items and the order of the heap stay as they are
C27_TouchIdempotent ==
    [][\A p \in Pids :
          /\ (fg[p].pc = "tstat" /\ fg'[p].pc # "tstat"
                /\ Holds(TouchName(fg[p]), disk[TouchName(fg[p])])) =>
                /\ fg'[p].pc = "tupd" /\ fg'[p].info = disk[TouchName(fg[p])]
                /\ mu' = p
                /\ files' = files /\ item' = item /\ pq' = pq
                /\ currentSize' = currentSize - TrackedSize(TouchName(fg[p]))
          /\ (fg[p].pc = "tupd" /\ fg'[p].pc # "tupd"
                /\ Holds(TouchName(fg[p]), fg[p].info)) =>
                /\ files' = files /\ item' = item /\ pq' = pq
                /\ currentSize' = currentSize + TrackedSize(TouchName(fg[p]))
                /\ ~panicked']_vars

\* Stat has returned for a path that was tracked with one other and is
\* unchanged in the backing store
C27_Witness ==
    /\ fg[1].pc = "done" /\ fg[1].op = "Stat" /\ fg[1].ret = "nil" /\ fg[1].was
    /\ Holds(fg[1].name, disk[fg[1].name])
    /\ Len(pq) = 2
    /\ mu = NoOwner

\* caller p's backing call fails in this step
BackingFails(p) ==
    /\ fg[p].pc = "call" /\ fg'[p].pc # "call"
    /\ \/ ~BackingCall(disk, fg[p].op, fg[p].name, fg[p].name2, fg[p].arg, now).ok
       \/ fg'[p].ret = "BackingErr"

\* caller p passes the expiration gate in this step with a path that is not
\* expired
PassesGate(p) ==
    /\ fg[p].pc \in {"chk", "chkOpen"} /\ fg'[p].pc # fg[p].pc
    /\ ~Stale(fg[p].name)

\* C28: a facade call on a path that is not expired passes the gate without
\* changing the registry, the heap, currentSize or the signal, and when its
\* backing operation fails the method returns the error there and then,
\* with all four, the lock and the backing store as they were: neither
\* touch nor the untracking section runs
C28_FailedCallChangesNothing ==
    [][\A p \in Pids :
          /\ PassesGate(p) =>
                /\ fg'[p].pc \in {"chk", "call"}
                /\ files' = files /\ item' = item /\ pq' = pq
                /\ currentSize' = currentSize /\ evictSignal' = evictSignal
          /\ BackingFails(p) =>
                /\ fg'[p].pc = "done" /\ fg'[p].ret = "BackingErr"
                /\ files' = files /\ item' = item /\ pq' = pq
                /\ currentSize' = currentSize /\ evictSignal' = evictSignal
                /\ mu' = mu /\ disk' = disk]_vars

\* a call on a tracked path that is not expired has returned the backing
\* store's error, with the path still tracked and a signal pending
FailedOn(op) ==
    /\ fg[1].pc = "done" /\ fg[1].op = op /\ fg[1].ret = "BackingErr"
    /\ fg[1].was /\ ~fg[1].exp /\ fg[1].called
    /\ files[fg[1].name] # NoItem
C28_Witness == FailedOn("RemoveAll") /\ evictSignal = 1 /\ Len(pq) = 2
C28_WitnessRename == FailedOn("Rename")
C28_WitnessSymlink == FailedOn("Symlink")
C28_WitnessTruncate == FailedOn("Truncate")
C28_WitnessMissing ==
    /\ fg[1].pc = "done" /\ fg[1].op = "Stat" /\ fg[1].ret = "BackingErr"
    /\ ~fg[1].was /\ disk[fg[1].name].kind = "none" /\ Len(pq) >= 1

\* C29: a facade call on a path that is not expired goes to its backing
\* call and returns that call's outcome, the error at once and nil after
\* touch or the untracking section, whatever the count and currentSize are;
\* a caller at its backing call can make it, and one at touch's Lock with
\* e.mu free can take the lock, over the bounds or not
C29_NoAdmissionControl ==
    /\ [][\A p \in Pids :
             /\ PassesGate(p) => fg'[p].pc \in {"chk", "call"}
             /\ (fg[p].pc = "call" /\ fg'[p].pc # "call") =>
                   LET r == BackingCall(disk, fg[p].op, fg[p].name, fg[p].name2,
                                        fg[p].arg, now)
                   IN /\ ~r.ok => fg'[p].ret = "BackingErr"
                      /\ \/ fg'[p].ret = "BackingErr" /\ fg'[p].pc = "done"
                         \/ /\ r.ok /\ disk' = r.disk
                            /\ fg'[p].pc \in {"tlock", "untrack"} /\ fg'[p].ret = "-"
             /\ (fg[p].pc \in {"tstat", "tupd", "untrack"} /\ fg'[p].pc = "done") =>
                   fg'[p].ret = "nil"
             /\ (fg[p].pc = "untrack" /\ fg'[p].pc # "untrack") =>
                   fg'[p].pc \in {"done", "tlock"}]_vars
    /\ [](\A p \in Pids :
            /\ (fg[p].pc = "call" /\ ~panicked) => ENABLED call(p)
            /\ (fg[p].pc = "tlock" /\ mu = NoOwner /\ ~panicked) => ENABLED touchLock(p))

\* a call that creates an untracked path has returned nil and the index
\* holds more files than MaxFiles
C29_Witness ==
    /\ fg[1].pc = "done" /\ fg[1].op \in {"Create", "OpenFile", "WriteFile"}
    /\ fg[1].ret = "nil" /\ ~fg[1].was
    /\ config.MaxFiles > 0 /\ Cardinality(Tracked) > config.MaxFiles
    /\ mu = NoOwner

\* path n is name or begins with name + "/"
AtOrBelow(n, name) == n = name \/ HasPrefix(Chars(n), Chars(name) \o <<"/">>)

\* what the index holds for a tracked path: its item, size and access time
Metadata(n) == [id |-> files[n], size |-> item[files[n]].size,
                atime |-> item[files[n]].atime]

\* C30: the locked section of a successful RemoveAll(name) untracks every
\* tracked path that is name or begins with name + "/", takes their sizes
\* off currentSize and their entries out of the heap, and leaves every other
\* tracked path tracked with the item, size and access time it had: a path
\* that only shares a string prefix with name, such as "dir2/f" for "dir",
\* stays
C30_RemoveAllUntracksSubtree ==
    [][\A p \in Pids :
          (fg[p].pc = "untrack" /\ fg[p].op = "RemoveAll" /\ fg'[p].pc # "untrack") =>
             LET gone == {n \in Tracked : AtOrBelow(n, fg[p].name)}
             IN /\ Tracked' = Tracked \ gone
                /\ currentSize' = currentSize - SumSizes(gone)
                /\ Len(pq') = Len(pq) - Cardinality(gone)
                /\ \A n \in Tracked \ gone : Metadata(n)' = Metadata(n)
                /\ fg'[p].pc = "done" /\ fg'[p].ret = "nil"
                /\ ~panicked']_vars

\* RemoveAll("dir") has returned nil: "dir/f" is gone from the backing store
\* and from the index, and "dir2/f" is there and tracked
C30_Witness ==
    /\ fg[1].pc = "done" /\ fg[1].op = "RemoveAll" /\ fg[1].name = "dir"
    /\ fg[1].ret = "nil"
    /\ files["dir/f"] = NoItem /\ disk["dir/f"].kind = "none"
    /\ files["dir2/f"] # NoItem /\ disk["dir2/f"].kind = "file"
    /\ mu = NoOwner

\* RemoveAll("dir") has made its backing call and is about to untrack, with
\* "dir/f" and "dir2/f" both tracked
C30_WitnessBefore ==
    /\ fg[1].pc = "untrack" /\ fg[1].op = "RemoveAll" /\ fg[1].name = "dir"
    /\ files["dir/f"] # NoItem /\ files["dir2/f"] # NoItem

\* the step in which RemoveAll(".") by caller p, its backing call done, leaves
\* its locked section
RootRemoved(p) ==
    /\ fg[p].pc = "untrack" /\ fg[p].op = "RemoveAll" /\ fg[p].name = "."
    /\ fg'[p].pc = "done" /\ fg'[p].ret = "nil"

\* C31: when a successful RemoveAll(".") returns, no path is tracked and
\* currentSize is 0
C31_RootRemoveAllEmptiesIndex ==
    [][\A p \in Pids : RootRemoved(p) => (Tracked' = {} /\ currentSize' = 0)]_vars

\* a successful RemoveAll(".") untracks nothing
RootRemoveAllUntracksNothing ==
    [][\A p \in Pids : RootRemoved(p) =>
          (files' = files /\ pq' = pq /\ currentSize' = currentSize)]_vars

\* the step in which caller p's Rename returns nil, its touch of newname done
RenameReturns(p) ==
    /\ fg[p].op = "Rename" /\ fg[p].pc \in {"tstat", "tupd"}
    /\ fg'[p].pc = "done" /\ fg'[p].ret = "nil"

\* the step in which caller p's Rename fails in the backing store
RenameFails(p) ==
    /\ fg[p].op = "Rename" /\ fg[p].pc = "call"
    /\ fg'[p].pc = "done" /\ fg'[p].ret = "BackingErr"

\* C32: when Rename(old, new) with old # new returns nil, old is untracked,
\* new is tracked by one heap entry whose size and access time are those of
\* the backing file new, and currentSize is the sum of the tracked sizes;
\* when the backing Rename fails, files, the heap and currentSize stay as
\* they were and old stays tracked if it was
C32_RenameMovesTracking ==
    [][\A p \in Pids :
          /\ (RenameReturns(p) /\ fg[p].name # fg[p].name2) =>
                /\ files'[fg[p].name] = NoItem
                /\ files'[fg[p].name2] # NoItem
                /\ Entries(fg[p].name2)' = 1
                /\ Entries(fg[p].name)' = 0
                /\ Holds(fg[p].name2, disk[fg[p].name2])'
                /\ currentSize' = SumSizes(Tracked)'
          /\ RenameFails(p) =>
                (files' = files /\ item' = item /\ pq' = pq
                   /\ currentSize' = currentSize)]_vars

\* the same, for a Rename whose touch finds the file new in the backing store
RenameMovesTrackingIfThere ==
    [][\A p \in Pids :
          (RenameReturns(p) /\ fg[p].name # fg[p].name2
             /\ disk[fg[p].name2].kind \in {"file", "link"}) =>
                /\ files'[fg[p].name] = NoItem
                /\ files'[fg[p].name2] # NoItem
                /\ Entries(fg[p].name2)' = 1
                /\ Entries(fg[p].name)' = 0
                /\ Holds(fg[p].name2, disk[fg[p].name2])'
                /\ currentSize' = SumSizes(Tracked)']_vars

\* the step in which caller p's Rename of a directory returns nil
DirRenameReturns(p) ==
    /\ RenameReturns(p)
    /\ fg[p].name \notin Names /\ fg[p].name # fg[p].name2

\* C33: when a Rename of a directory to another name returns nil, no path
\* below the old name is tracked and every file now below the new name is
\* tracked
C33_TrackingFollowsDirRename ==
    [][\A p \in Pids : DirRenameReturns(p) =>
          /\ \A n \in Tracked' : ~Under(n, fg[p].name)
          /\ \A n \in Names :
                (Under(n, fg[p].name2) /\ disk'[n].kind = "file") => n \in Tracked']_vars

\* a Rename of a directory changes nothing in the index
DirRenameTracksNothing ==
    [][\A p \in Pids :
          (fg[p].op = "Rename" /\ fg[p].name \notin Names /\ fg'[p] # fg[p]) =>
             (files' = files /\ pq' = pq /\ item' = item
                /\ currentSize' = currentSize /\ evictSignal' = evictSignal)]_vars

\* evictLoop's Remove of the victim it popped
EvictorDeletes == epc = "remove" /\ epc' # "remove"

\* checkExpired's Remove, by caller p, of the path it found expired
CheckerDeletes(p) == fg[p].pc = "expire" /\ fg'[p].pc # "expire"

\* C34: when evictLoop or checkExpired calls Remove on the backing store, the
\* path is not tracked, and so the call leaves no path tracked whose file it
\* has just deleted
C34_DeletedPathIsUntracked ==
    [][/\ EvictorDeletes =>
             /\ files[ename] = NoItem
             /\ ~(files'[ename] # NoItem /\ disk'[ename].kind = "none")
       /\ \A p \in Pids : CheckerDeletes(p) =>
             /\ files[fg[p].name] = NoItem
             /\ ~(files'[fg[p].name] # NoItem /\ disk'[fg[p].name].kind = "none")]_vars

\* evictLoop's Remove returns an error: the backing store is as it was
EvictorDeleteFails == epc = "remove" /\ epc' # "remove" /\ disk' = disk

\* C35: when evictLoop's Remove fails, nothing is put back: files, the items,
\* the heap and currentSize are as they were, a victim that was untracked is
\* still untracked, and evictLoop forgets the name and goes to its next test
\* of the bounds
C35_FailedEvictionIsDropped ==
    [][EvictorDeleteFails =>
          /\ files' = files /\ item' = item /\ pq' = pq
          /\ currentSize' = currentSize
          /\ files[ename] = NoItem => files'[ename] = NoItem
          /\ epc' = "check" /\ ename' = NoName
          /\ evictSignal' = evictSignal /\ mu' = mu]_vars

\* evictLoop's Remove of "a" has failed, on a file that is there or on one that
\* is gone, and "a" is untracked; evictLoop is back at its test
DroppedFailure == epc = "check" /\ ename = NoName /\ files["a"] = NoItem /\ Len(pq) = 1
C35_Witness == DroppedFailure /\ disk["a"].kind = "file" /\ fg[1].pc = "done"
C35_WitnessGone ==
    DroppedFailure /\ disk["a"].kind = "none" /\ fg[1].pc = "done" /\ fg[1].op = "Stat"

\* caller p's Write or Truncate on a handle returns from its touch
HandleTouchReturns(p) ==
    /\ fg[p].op \in HandleOps /\ fg[p].pc \in {"tstat", "tupd"}
    /\ fg'[p].pc = "done"

\* caller p's Write or Truncate on a handle returns without touch: Write has
\* written nothing, or Truncate has failed
HandleNoTouch(p) ==
    /\ fg[p].op \in HandleOps /\ fg[p].pc = "hcall" /\ fg'[p].pc = "done"

\* the handle's call goes on to touch exactly when Write has written
\* something or Truncate has succeeded, and changes nothing in the index
\* when it does not
HandleTouchesOnSuccess(p) ==
    /\ (fg[p].pc = "hcall" /\ fg[p].op = "Write" /\ fg'[p].pc # "hcall") =>
          (fg'[p].pc = "tlock" <=> fg[p].arg > 0)
    /\ (fg[p].pc = "hcall" /\ fg'[p].pc # "hcall") =>
          fg'[p].pc \in {"tlock", "done"}
    /\ HandleNoTouch(p) =>
          /\ files' = files /\ item' = item /\ pq' = pq
          /\ currentSize' = currentSize /\ evictSignal' = evictSignal
          /\ disk' = disk
          /\ fg[p].op = "FileTruncate" => fg'[p].ret = "BackingErr"

C36_WitnessTruncate ==
    /\ fg[1].pc = "done" /\ fg[1].op = "FileTruncate" /\ fg[1].ret = "nil"
    /\ fg[1].was
    /\ Holds(fg[1].name, disk[fg[1].name])
    /\ currentSize = 0
C36_WitnessNoTouch ==
    /\ fg[1].pc = "done" /\ fg[1].op = "Write" /\ fg[1].arg = 0 /\ fg[1].was
    /\ files[fg[1].name] # NoItem

\* caller p is at checkExpired and the check lets the path through: MaxAge is
\* not positive, or the path is untracked, or its idle time is at most MaxAge
NotExpired(p) ==
    /\ fg[p].pc \in {"chkOpen", "chk"}
    /\ \/ config.MaxAge <= 0
       \/ Tracking(fg[p].name) = NoItem
       \/ now - item[Tracking(fg[p].name)].atime <= config.MaxAge

\* C37: checkExpired expires nothing when MaxAge <= 0, when the path is
\* untracked, or when the tracked path's idle time is at most MaxAge: its step
\* leaves the registry and the backing store unchanged, issues no backing
\* Remove, and the operation goes on to its backing call
C37_NotExpiredPassesGate ==
    [][\A p \in Pids :
          (NotExpired(p) /\ fg'[p] # fg[p]) =>
             /\ fg'[p].pc = (IF fg[p].pc = "chkOpen" THEN "chk" ELSE "call")
             /\ fg'[p].rm = fg[p].rm
             /\ fg'[p].ret = "-"
             /\ files' = files
             /\ item' = item
             /\ pq' = pq
             /\ currentSize' = currentSize
             /\ disk' = disk
      ]_vars

\* Stat(a) has passed the check with a tracked and idle for exactly MaxAge = 1
C37_Witness ==
    /\ fg[1].op = "Stat" /\ fg[1].name = "a" /\ fg[1].pc = "call"
    /\ config.MaxAge = 1
    /\ Tracked = {"a"}
    /\ now - item[files["a"]].atime = 1

\* Stat(a) has passed the check with MaxAge = 0 and a tracked and idle for 2
C37_WitnessDisabled ==
    /\ fg[1].op = "Stat" /\ fg[1].name = "a" /\ fg[1].pc = "call"
    /\ config.MaxAge = 0
    /\ Tracked = {"a"}
    /\ now - item[files["a"]].atime = 2

\* Stat(b) has passed the check with MaxAge = 1 and b untracked
C37_WitnessUntracked ==
    /\ fg[1].op = "Stat" /\ fg[1].name = "b" /\ fg[1].pc = "call"
    /\ config.MaxAge = 1
    /\ "b" \notin Tracked
    /\ now = 2

\* Stat(a) has passed the check with a negative MaxAge
C37_WitnessNegative ==
    /\ fg[1].op = "Stat" /\ fg[1].name = "a" /\ fg[1].pc = "call"
    /\ config.MaxAge < 0
    /\ Tracked = {"a"}
    /\ now - item[files["a"]].atime = 2

\* caller p is inside touch with e.mu held
InTouch(p) == fg[p].pc \in {"tstat", "tupd"}

\* the metadata the touch of caller p fetched: at the insert branch what the
\* backing store holds now, at the update branch what touch kept from its Stat
Fetched(p) ==
    IF fg[p].pc = "tupd" THEN fg[p].info ELSE StatInfo(disk, TouchName(fg[p]))

\* C38: touches are serialized: at most one caller is inside touch and it holds
\* e.mu; while a caller holds e.mu only its own steps change the registry; and
\* a touch that found the file returns with exactly one item for the path, with
\* the size and access time that this touch fetched, and currentSize counting
\* each tracked size once
C38_TouchesSerialized ==
    /\ [](\A p \in Pids : InTouch(p) =>
             /\ mu = p
             /\ \A q \in Pids : InTouch(q) => q = p)
    /\ [][\A p \in Pids :
             /\ (mu = p /\ <<files, item, pq, currentSize>>' # <<files, item, pq, currentSize>>)
                   => fg'[p] # fg[p]
             /\ Sends(p) =>
                   /\ Entries(TouchName(fg[p]))' = 1
                   /\ files'[TouchName(fg[p])] # NoItem
                   /\ item'[files'[TouchName(fg[p])]].size = Fetched(p).size
                   /\ item'[files'[TouchName(fg[p])]].atime = Fetched(p).atime
                   /\ currentSize' = SumSizes(Tracked)'
                   /\ mu' = NoOwner
         ]_vars

\* both callers wrote a while it was untracked and both have returned: a is
\* tracked once
C38_Witness ==
    /\ \A p \in Pids : /\ fg[p].pc = "done" /\ fg[p].op = "WriteFile" /\ fg[p].name = "a"
                       /\ ~fg[p].was /\ fg[p].ret = "nil"
    /\ Entries("a") = 1
    /\ currentSize = 1

\* caller 2 waits for e.mu while caller 1 is inside touch on the same path
C38_WitnessWaiting ==
    /\ InTouch(1) /\ fg[2].pc = "tlock"
    /\ TouchName(fg[1]) = "a" /\ TouchName(fg[2]) = "a"
    /\ ~fg[1].was /\ ~fg[2].was

====
